---- MODULE Spec2Model ----
(***************************************************************************)
(* A model of graphene_sqlalchemy: the mutation authorization and upsert   *)
(* logic (mutation.py), the registry (registry.py), the attributes-bundle  *)
(* and output-type builders (converter.py, objecttype.py) and the scalar   *)
(* converters (converter.py, utils.py).                                    *)
(*                                                                         *)
(* Python dictionaries are functions over a finite set of keys; None is    *)
(* the value NULL; a raised exception is an outcome record whose kind is   *)
(* the exception.                                                          *)
(***************************************************************************)
EXTENDS Integers, Sequences, FiniteSets, TLC

VARIABLES
    pc,          \* position of the caller: "idle" or "done" (a call returned)
    call,        \* the last call: its arguments and everything it did
    roles_map,   \* Mutation._meta.roles_map (a direct value, shared by calls)
    db,          \* the stored records of the model class, by primary key
    regs,        \* the Registry objects created so far, each with its namespaces
    registry,    \* registry.py's global: 0 for None, or an index of regs
    types,       \* the output types (ObjectType subclasses) defined so far
    bundles,     \* the attributes bundles constructed so far
    enum_count,  \* the number of graphene enum types created so far
    connection_fields,  \* the connection fields constructed so far
    ENUM_CACHE,  \* utils._ENUM_CACHE: sort enum name -> (enum, default)
    sessions,    \* the session objects: the writes each holds uncommitted
    invocations, \* the mutate invocations in flight: position, session, write
    promises     \* the values connection_resolver returned for a thenable

vars == <<pc, call, roles_map, db, regs, registry, types, bundles, enum_count,
          connection_fields, ENUM_CACHE, sessions, invocations, promises>>

mutationVars == <<roles_map, db>>

registryVars == <<regs, registry, types, bundles, enum_count>>

connectionVars == <<connection_fields, ENUM_CACHE>>

concurrentVars == <<sessions, invocations, promises>>

(***************************************************************************)
(* Bounds of the model.                                                    *)
(***************************************************************************)
\* An explicit allowance list is appended to on every call (mutation.py:132);
\* calls are cut off once a list they would touch has this length.
MaxAllowanceLen == 3

\* Registry objects, output types and attributes bundles created in one run.
MaxRegistries == 2

MaxTypes == 2

MaxBundles == 2

\* Graphene enum types created in one run.
MaxEnumTypes == 2

\* Connection fields constructed in one run.
MaxConnectionFields == 2

\* mutate invocations started in one run.
MaxInvocations == 3

\* The thenables of requests on connection fields.
MaxPromises == 2

(***************************************************************************)
(* Dictionaries.                                                           *)
(***************************************************************************)
NULL == "None"

EmptyDict == [k \in {} |-> NULL]

Range(s) == {s[i] : i \in DOMAIN s}

\* dict.get(k): None for a missing key.
Get(d, k) == IF k \in DOMAIN d THEN d[k] ELSE NULL

\* The value of body for the value of e: the result of a call, computed
\* once and then named.
Bind(e, body(_)) == CHOOSE y \in {body(x) : x \in {e}} : TRUE

\* dict.update(e): the entries of e replace or extend those of d.
Update(d, e) ==
    [k \in (DOMAIN d) \cup (DOMAIN e) |-> IF k \in DOMAIN e THEN e[k] ELSE d[k]]

Restrict(d, S) == [k \in (DOMAIN d) \cap S |-> d[k]]

\* dict.pop(k) on a present or absent key: the dictionary without k.
Without(d, k) == [j \in (DOMAIN d) \ {k} |-> d[j]]

\* The partial functions from keys in K, each key k with a value in V[k].
RECURSIVE DictsOver(_, _)
DictsOver(K, V) ==
    IF K = {} THEN {EmptyDict}
    ELSE LET k == CHOOSE x \in K : TRUE
             rest == DictsOver(K \ {k}, V)
         IN rest \cup {Update(d, [j \in {k} |-> v]) : d \in rest, v \in V[k]}

\* Python truthiness of a scalar value: None and the empty string are falsy.
Truthy(v) == v \notin {NULL, ""}

(***************************************************************************)
(* Role allowances.  roles_map maps a role to '*' or to a list of names.   *)
(***************************************************************************)
Wildcard == [kind |-> "wild", fields |-> <<>>]

ListOf(s) == [kind |-> "list", fields |-> s]

\* An allowance that is neither '*' nor a list (roles_map.get of a missing role).
NoAllowance == [kind |-> "none", fields |-> <<>>]

\* Mutation._get_fields_for_role without the append of 'id' (mutant).
_get_fields_for_role_NoAppend(role, rmap, data) ==
    LET fields_for_role ==
            IF DOMAIN rmap # {}
            THEN (IF role \in DOMAIN rmap THEN rmap[role] ELSE NoAllowance)
            ELSE Wildcard
    IN  IF fields_for_role.kind = "list"
        THEN [allowed |-> Restrict(data, Range(fields_for_role.fields)),
              disallowed |-> Restrict(data, (DOMAIN data) \ Range(fields_for_role.fields)),
              rmap |-> rmap]
        ELSE IF fields_for_role.kind = "wild"
        THEN [allowed |-> data, disallowed |-> EmptyDict, rmap |-> rmap]
        ELSE [allowed |-> EmptyDict, disallowed |-> EmptyDict, rmap |-> rmap]

\* Mutation._get_fields_for_role: the (allowed, disallowed) split of data for
\* one role, and the roles map as the call leaves it: an explicit list has
\* 'id' appended to it in place.
_get_fields_for_role(role, rmap, data) ==
    LET fields_for_role ==
            IF DOMAIN rmap # {}
            THEN (IF role \in DOMAIN rmap THEN rmap[role] ELSE NoAllowance)
            ELSE Wildcard
    IN  IF fields_for_role.kind = "list"
        THEN LET appended == Append(fields_for_role.fields, "id")
             IN [allowed |-> Restrict(data, Range(appended)),
                 disallowed |-> Restrict(data, (DOMAIN data) \ Range(appended)),
                 rmap |-> [rmap EXCEPT ![role] = ListOf(appended)]]
        ELSE IF fields_for_role.kind = "wild"
        THEN [allowed |-> data, disallowed |-> EmptyDict, rmap |-> rmap]
        ELSE [allowed |-> EmptyDict, disallowed |-> EmptyDict, rmap |-> rmap]

\* The loop of _available_fields_for_user over the available roles: both
\* dictionaries are accumulated with dict.update, the map is threaded through.
RECURSIVE CollectRoles(_, _, _, _, _)
CollectRoles(roles, rmap, data, allowedAcc, disallowedAcc) ==
    IF roles = {}
    THEN [allowed |-> allowedAcc, disallowed |-> disallowedAcc, rmap |-> rmap]
    ELSE LET role == CHOOSE r \in roles : TRUE
             res == _get_fields_for_role(role, rmap, data)
         IN CollectRoles(roles \ {role}, res.rmap, data,
                         Update(allowedAcc, res.allowed),
                         Update(disallowedAcc, res.disallowed))

AuthOutcome(kind, field, fields, rmap) ==
    [kind |-> kind, field |-> field, fields |-> fields, rmap |-> rmap]

\* _fields.update(t) with t the (allowed, disallowed) tuple of dictionaries:
\* dict.update of a sequence takes every element as a key/value pair, and
\* raises ValueError for an element that has not exactly two members.
UpdateFromTuple(res) ==
    IF Cardinality(DOMAIN res.allowed) = 2 /\ Cardinality(DOMAIN res.disallowed) = 2
    THEN LET a == CHOOSE k \in DOMAIN res.allowed : TRUE
             b == CHOOSE k \in DOMAIN res.disallowed : TRUE
         IN AuthOutcome("ok", NULL,
                [k \in {a, b} |-> IF k = b
                                  THEN CHOOSE x \in (DOMAIN res.disallowed) \ {b} : TRUE
                                  ELSE CHOOSE x \in (DOMAIN res.allowed) \ {a} : TRUE],
                res.rmap)
    ELSE AuthOutcome("ValueError", NULL, EmptyDict, res.rmap)

\* _available_fields_for_user without the check for an empty set of
\* available roles (mutant).
_available_fields_for_user_NoRaise(user_roles, rmap, data) ==
    IF DOMAIN rmap = {}
    THEN {UpdateFromTuple(_get_fields_for_role("*", rmap, data))}
    ELSE LET available_roles == (DOMAIN rmap) \cap user_roles
             acc == CollectRoles(available_roles, rmap, data, EmptyDict, EmptyDict)
             allowed_field_names == (DOMAIN acc.allowed) \cap (DOMAIN data)
             disallowed_fields_names == (DOMAIN acc.disallowed) \ allowed_field_names
             rejected == {n \in disallowed_fields_names : Get(data, n) # NULL}
         IN IF rejected # {}
            THEN {AuthOutcome("NotAllowed", n, EmptyDict, acc.rmap) : n \in rejected}
            ELSE {AuthOutcome("ok", NULL, acc.allowed, acc.rmap)}

\* _available_fields_for_user rejecting a disallowed field whatever its
\* value, None included (mutant).
_available_fields_for_user_NullRejected(user_roles, rmap, data) ==
    IF DOMAIN rmap = {}
    THEN {UpdateFromTuple(_get_fields_for_role("*", rmap, data))}
    ELSE LET available_roles == (DOMAIN rmap) \cap user_roles
         IN IF available_roles = {}
            THEN {AuthOutcome("NoRoles", NULL, EmptyDict, rmap)}
            ELSE LET acc == CollectRoles(available_roles, rmap, data,
                                         EmptyDict, EmptyDict)
                     allowed_field_names == (DOMAIN acc.allowed) \cap (DOMAIN data)
                     rejected == (DOMAIN acc.disallowed) \ allowed_field_names
                 IN IF rejected # {}
                    THEN {AuthOutcome("NotAllowed", n, EmptyDict, acc.rmap) : n \in rejected}
                    ELSE {AuthOutcome("ok", NULL, acc.allowed, acc.rmap)}

\* _available_fields_for_user that lets every disallowed field pass and
\* leaves it out of the result (mutant).
_available_fields_for_user_NoRejection(user_roles, rmap, data) ==
    IF DOMAIN rmap = {}
    THEN {UpdateFromTuple(_get_fields_for_role("*", rmap, data))}
    ELSE LET available_roles == (DOMAIN rmap) \cap user_roles
         IN IF available_roles = {}
            THEN {AuthOutcome("NoRoles", NULL, EmptyDict, rmap)}
            ELSE LET acc == CollectRoles(available_roles, rmap, data,
                                         EmptyDict, EmptyDict)
                 IN {AuthOutcome("ok", NULL, acc.allowed, acc.rmap)}

\* Mutation._available_fields_for_user: the set of outcomes the call can
\* have (the field a rejection names is the first non-null one of a list
\* built from a set, so any of them).
_available_fields_for_user(user_roles, rmap, data) ==
    IF DOMAIN rmap = {}
    THEN {UpdateFromTuple(_get_fields_for_role("*", rmap, data))}
    ELSE LET available_roles == (DOMAIN rmap) \cap user_roles
         IN IF available_roles = {}
            THEN {AuthOutcome("NoRoles", NULL, EmptyDict, rmap)}
            ELSE LET acc == CollectRoles(available_roles, rmap, data,
                                         EmptyDict, EmptyDict)
                     allowed_field_names == (DOMAIN acc.allowed) \cap (DOMAIN data)
                     disallowed_fields_names ==
                         (DOMAIN acc.disallowed) \ allowed_field_names
                     rejected == {n \in disallowed_fields_names : Get(data, n) # NULL}
                 IN IF rejected # {}
                    THEN {AuthOutcome("NotAllowed", n, EmptyDict, acc.rmap) : n \in rejected}
                    ELSE {AuthOutcome("ok", NULL, acc.allowed, acc.rmap)}

\* The lists a call with these roles appends to are still below the cut-off.
WithinAllowanceBound(roles, rmap) ==
    \A r \in roles \cap (DOMAIN rmap) :
        rmap[r].kind = "list" => Len(rmap[r].fields) < MaxAllowanceLen

(***************************************************************************)
(* The authorization functions called on their own.                        *)
(***************************************************************************)
AuthFields == {"id", "name", "secret"}

AuthValues == [f \in AuthFields |-> {NULL, "x", "y"}]

AuthInputs == DictsOver(AuthFields, AuthValues)

Roles == {"editor", "admin", "viewer"}

\* The roles maps a mutation type is configured with.
RolesMaps ==
    { [r \in {"editor", "admin"} |->
          IF r = "editor" THEN ListOf(<<"name">>) ELSE Wildcard],
      [r \in {"editor", "viewer"} |->
          IF r = "editor" THEN ListOf(<<"name">>) ELSE ListOf(<<"secret">>)],
      EmptyDict }

NoCall == [op |-> "none"]

InitAuth ==
    /\ pc = "idle"
    /\ call = NoCall
    /\ roles_map \in RolesMaps
    /\ db = EmptyDict
    /\ regs = <<>> /\ registry = 0 /\ types = <<>> /\ bundles = <<>>
    /\ enum_count = 0
    /\ connection_fields = <<>> /\ ENUM_CACHE = <<>>
    /\ sessions = <<>> /\ invocations = <<>> /\ promises = <<>>

CallGetFieldsForRole ==
    /\ pc = "idle"
    /\ \E role \in Roles \cup {"*"}, data \in AuthInputs :
          /\ WithinAllowanceBound({role}, roles_map)
          /\ LET res == _get_fields_for_role(role, roles_map, data)
             IN /\ call' = [op |-> "get_fields_for_role", role |-> role,
                            roles_map |-> roles_map, data |-> data,
                            allowed |-> res.allowed, disallowed |-> res.disallowed]
                /\ roles_map' = res.rmap
    /\ pc' = "done"
    /\ UNCHANGED <<db, registryVars, connectionVars, concurrentVars>>

CallAvailableFieldsForUser ==
    /\ pc = "idle"
    /\ \E user_roles \in SUBSET Roles, data \in AuthInputs :
          /\ WithinAllowanceBound(user_roles, roles_map)
          /\ \E out \in _available_fields_for_user(user_roles, roles_map, data) :
                /\ call' = [op |-> "available_fields_for_user",
                            user_roles |-> user_roles, roles_map |-> roles_map,
                            data |-> data, kind |-> out.kind, field |-> out.field,
                            fields |-> out.fields]
                /\ roles_map' = out.rmap
    /\ pc' = "done"
    /\ UNCHANGED <<db, registryVars, connectionVars, concurrentVars>>

\* The caller takes the result; the next call can start.
Return ==
    /\ pc = "done"
    /\ pc' = "idle"
    /\ call' = NoCall
    /\ UNCHANGED <<mutationVars, registryVars, connectionVars, concurrentVars>>

NextAuth == CallGetFieldsForRole \/ CallAvailableFieldsForUser \/ Return

SpecAuth == InitAuth /\ [][NextAuth]_vars

(***************************************************************************)
(* Claims about authorization, checked under SpecAuth.                     *)
(***************************************************************************)
AuthReturned == pc = "done" /\ call.op = "available_fields_for_user"

RoleReturned == pc = "done" /\ call.op = "get_fields_for_role"

\* The roles of the call that are both held by the user and keys of the map.
ApplicableRoles == (DOMAIN call.roles_map) \cap call.user_roles

\* Role r allows field f as the roles map is written: '*' or f in the list.
ListedFor(r, f) ==
    \/ call.roles_map[r].kind = "wild"
    \/ f \in Range(call.roles_map[r].fields)

\* The supplied non-null fields that no applicable role allows, when a list
\* allows exactly its members.
UnlistedSupplied ==
    {f \in DOMAIN call.data :
        call.data[f] # NULL /\ \A r \in ApplicableRoles : ~ListedFor(r, f)}

\* The same, when an explicit list allows its members and 'id'.
UnlistedSuppliedButId ==
    {f \in DOMAIN call.data :
        /\ call.data[f] # NULL
        /\ \A r \in ApplicableRoles :
              ~ListedFor(r, f) /\ ~(call.roles_map[r].kind = "list" /\ f = "id")}

\* C1 as stated: for a non-empty roles map and a user holding a mapped role,
\* authorization fails with a field-not-authorized error exactly when some
\* supplied non-null field is allowed by none of the applicable roles, and
\* the field the error names is such a field.
C1_AsClaimed ==
    (AuthReturned /\ ApplicableRoles # {}) =>
        /\ (call.kind = "NotAllowed") <=> (UnlistedSupplied # {})
        /\ call.kind = "NotAllowed" => call.field \in UnlistedSupplied

\* C1 amended: the same, with every explicit list also allowing the field
\* 'id'; the error names one of the fields no applicable role allows, and
\* without such a field the call succeeds.
C1_NotAuthorizedIffUnlistedButId ==
    (AuthReturned /\ ApplicableRoles # {}) =>
        /\ (call.kind = "NotAllowed") <=> (UnlistedSuppliedButId # {})
        /\ call.kind = "NotAllowed" => call.field \in UnlistedSuppliedButId
        /\ call.kind \in {"NotAllowed", "ok"}

\* The claim's example: map {editor: [name], admin: '*'}, roles [editor],
\* input {name, secret} is rejected on 'secret'.
C1_Witness ==
    /\ AuthReturned
    /\ DOMAIN call.roles_map = {"editor", "admin"}
    /\ call.user_roles = {"editor"}
    /\ DOMAIN call.data = {"name", "secret"}
    /\ call.data["name"] = "x" /\ call.data["secret"] = "y"
    /\ call.kind = "NotAllowed" /\ call.field = "secret"

\* C2 as stated: a role with an explicit list L allows exactly the supplied
\* fields in L and disallows every other supplied field, 'id' included; a
\* wildcard role allows every supplied field and disallows none.
C2_AsClaimed ==
    (RoleReturned /\ call.role \in DOMAIN call.roles_map) =>
        LET a == call.roles_map[call.role]
        IN /\ a.kind = "list" =>
                /\ call.allowed = Restrict(call.data, Range(a.fields))
                /\ call.disallowed =
                       Restrict(call.data, (DOMAIN call.data) \ Range(a.fields))
           /\ a.kind = "wild" =>
                call.allowed = call.data /\ call.disallowed = EmptyDict

\* C2 amended: a role with an explicit list L allows the supplied fields that
\* are in L or are named 'id', and disallows every other supplied field; a
\* wildcard role allows every supplied field and disallows none.
C2_ListOrIdAllowed ==
    (RoleReturned /\ call.role \in DOMAIN call.roles_map) =>
        LET a == call.roles_map[call.role]
        IN /\ a.kind = "list" =>
                /\ \A f \in DOMAIN call.data :
                      /\ (f \in Range(a.fields) \/ f = "id") =>
                            (f \in DOMAIN call.allowed /\ call.allowed[f] = call.data[f]
                             /\ f \notin DOMAIN call.disallowed)
                      /\ (f \notin Range(a.fields) /\ f # "id") =>
                            (f \in DOMAIN call.disallowed
                             /\ call.disallowed[f] = call.data[f]
                             /\ f \notin DOMAIN call.allowed)
                /\ DOMAIN call.allowed \subseteq DOMAIN call.data
                /\ DOMAIN call.disallowed \subseteq DOMAIN call.data
           /\ a.kind = "wild" =>
                call.allowed = call.data /\ call.disallowed = EmptyDict

\* A list role called with 'id' (not in its list) and an unlisted field.
C2_Witness ==
    /\ RoleReturned
    /\ call.role = "editor"
    /\ "editor" \in DOMAIN call.roles_map
    /\ call.roles_map["editor"] = ListOf(<<"name">>)
    /\ DOMAIN call.data = {"id", "name", "secret"}
    /\ DOMAIN call.allowed = {"id", "name"}
    /\ DOMAIN call.disallowed = {"secret"}

\* C3: with a non-empty roles map and a user holding none of its roles, the
\* call fails with the no-roles error for every input, and returns no field.
C3_NoRolesForUser ==
    (AuthReturned /\ DOMAIN call.roles_map # {} /\ ApplicableRoles = {}) =>
        call.kind = "NoRoles" /\ call.fields = EmptyDict

\* The user holds a role, but none of the map's; the input is empty.
C3_Witness ==
    /\ AuthReturned
    /\ DOMAIN call.roles_map = {"editor", "admin"}
    /\ call.user_roles = {"viewer"}
    /\ call.data = EmptyDict
    /\ call.kind = "NoRoles"

(***************************************************************************)
(* Mutation.mutate and Mutation.upsert.  The output type's model has the   *)
(* columns id (primary key), name and owner_id, and the relationships      *)
(* owner (to-one, over owner_id) and tags (to-many); its input type has    *)
(* the fields id, name and owner.                                          *)
(***************************************************************************)
Columns == {"id", "name", "owner_id"}

\* Primary keys: "" is a key that Python takes as false.
Keys == {"", "k1", "k2"}

ModelRelationships ==
    { [key |-> "owner", fk |-> "owner_id", backref |-> TRUE, to_one |-> TRUE],
      [key |-> "tags", fk |-> NULL, backref |-> TRUE, to_one |-> FALSE] }

\* Mutation.__init_subclass_with_meta__: relationship name -> foreign-key
\* column, for the to-one relationships with a declared foreign key and backref.
foreign_fields_map ==
    LET kept == {f \in ModelRelationships : f.fk # NULL /\ f.backref /\ f.to_one}
    IN [k \in {f.key : f \in kept} |-> (CHOOSE f \in kept : f.key = k).fk]

MutateValues ==
    [f \in {"id", "name", "owner"} |->
        IF f = "id" THEN {NULL} \cup Keys
        ELSE IF f = "name" THEN {NULL, "a", "b"}
        ELSE {NULL, "", "o1"}]

MutateInputs == DictsOver({"id", "name", "owner"}, MutateValues)

MutateRoleSets == {{"editor"}, {"admin"}, {"viewer"}, {"editor", "admin"}}

StoredRecords ==
    {[c \in Columns |-> IF c = "id" THEN k ELSE IF c = "name" THEN "a" ELSE NULL] :
        k \in {"", "k1"}}

\* The contents of the table when the mutation type starts serving.
InitialDbs ==
    { EmptyDict,
      [k \in {"", "k1"} |-> CHOOSE r \in StoredRecords : r["id"] = k] }

\* The loop of mutate over the supplied relationship names: each is moved to
\* its foreign-key column, and the moved value is asserted to be true.
RECURSIVE RenameRelationships(_, _)
RenameRelationships(relationships, data_for_update) ==
    IF relationships = {}
    THEN [failed |-> FALSE, data |-> data_for_update]
    ELSE LET r == CHOOSE x \in relationships : TRUE
             n == foreign_fields_map[r]
             moved == Update(Without(data_for_update, r),
                             [j \in {n} |-> data_for_update[r]])
         IN IF ~Truthy(moved[n])
            THEN [failed |-> TRUE, data |-> moved]
            ELSE RenameRelationships(relationships \ {r}, moved)

\* What one upsert did: the session calls in order, the fields assigned on
\* the existing record, the key of the record added, the table afterwards.
UpsertOutcome(kind, cause, session, assigned, added, key, table) ==
    [kind |-> kind, cause |-> cause, session |-> session, assigned |-> assigned,
     added |-> added, key |-> key, db |-> table]

\* The except clause of upsert: rollback, close, re-raise the same error.
UpsertRaised(cause, session, assigned, table) ==
    UpsertOutcome("raised", cause, session \o <<"rollback", "close">>,
                  assigned, {}, NULL, table)

\* model_cls(**data): the columns not given are None.
NewRecord(data, key) ==
    [c \in Columns |-> IF c = "id" THEN key ELSE Get(data, c)]

\* The key a record added without one is stored under.
FreshKeys(table) == {k \in Keys : Truthy(k) /\ k \notin DOMAIN table}

\* upsert with model None: construct, add, commit; each step can fail.
UpsertCreate(session, data, table) ==
    IF ~((DOMAIN data) \subseteq Columns)
    THEN {UpsertRaised("TypeError", session, {}, table)}
    ELSE {UpsertRaised("construct", session, {}, table),
          UpsertRaised("add", session \o <<"add">>, {}, table),
          UpsertRaised("commit", session \o <<"add", "commit">>, {}, table)}
         \cup
         {UpsertOutcome("ok", NULL, session \o <<"add", "commit">>, {}, {key}, key,
              Update(table, [k \in {key} |-> NewRecord(data, key)])) :
            key \in (IF "id" \in DOMAIN data THEN {data["id"]} ELSE FreshKeys(table))}

\* upsert on a found record that assigns every field given (mutant).
UpsertUpdate_AssignAll(session, key, data, table) ==
    {UpsertOutcome("ok", NULL, session \o <<"commit">>, DOMAIN data, {}, key,
         [table EXCEPT ![key] = Update(@, data)])}

\* upsert on the record found under key: every field of data whose value
\* differs from the record's is assigned; an assignment or the commit can
\* fail, after any part of the other assignments.
UpsertUpdate(session, key, data, table) ==
    IF ~((DOMAIN data) \subseteq Columns)
    THEN {UpsertRaised("AttributeError", session, {}, table)}
    ELSE LET changed == {f \in DOMAIN data : table[key][f] # data[f]}
         IN {UpsertRaised("assign", session, before, table) :
                before \in UNION {SUBSET (changed \ {f}) : f \in changed}}
            \cup
            {UpsertRaised("commit", session \o <<"commit">>, changed, table),
             UpsertOutcome("ok", NULL, session \o <<"commit">>, changed, {}, key,
                 [table EXCEPT ![key] = Update(@, Restrict(data, changed))])}

\* upsert that leaves the session as it is when a step fails (mutant).
upsert_NoCleanup(session, model, data, table) ==
    {IF o.kind = "raised"
     THEN [o EXCEPT !.session = SubSeq(@, 1, Len(@) - 2)]
     ELSE o :
        o \in (IF model = NULL THEN UpsertCreate(session, data, table)
               ELSE UpsertUpdate(session, model, data, table))}

\* Mutation.upsert(model, model_cls, session, **data).
upsert(session, model, data, table) ==
    IF model = NULL
    THEN UpsertCreate(session, data, table)
    ELSE UpsertUpdate(session, model, data, table)

\* What one mutate did.  found: the key of the record the lookup returned.
MutateOutcome(kind, cause, field, authorized, persisted, found, up, rmap) ==
    [kind |-> kind, cause |-> cause, field |-> field, authorized |-> authorized,
     persisted |-> persisted, found |-> found, session |-> up.session,
     assigned |-> up.assigned, added |-> up.added, key |-> up.key,
     db |-> up.db, rmap |-> rmap,
     result |-> IF kind = "ok"
                THEN Restrict(up.db[up.key], Columns \ Range(foreign_fields_map))
                ELSE EmptyDict]

\* mutate after a successful authorization: the lookup by primary key (only
\* for a key that is true), the removal of a false key from the authorized
\* fields, the renaming of the relationships, the upsert.
Persist(auth, data, table) ==
    LET model_pk == Get(data, "id")
        session == IF Truthy(model_pk) THEN <<"get">> ELSE <<>>
        model == IF Truthy(model_pk) /\ model_pk \in DOMAIN table THEN model_pk ELSE NULL
        popped == IF ~Truthy(model_pk) THEN Without(auth.fields, "id") ELSE auth.fields
        renamed == RenameRelationships((DOMAIN popped) \cap (DOMAIN foreign_fields_map),
                                       popped)
    IN IF renamed.failed
       THEN {MutateOutcome("AssertionError", NULL, NULL, auth.fields, renamed.data,
                 model, UpsertOutcome("none", NULL, session, {}, {}, NULL, table),
                 auth.rmap)}
       ELSE {MutateOutcome(up.kind, up.cause, NULL, auth.fields, renamed.data,
                 model, up, auth.rmap) :
                up \in upsert(session, model, renamed.data, table)}

\* mutate that looks the record up before it authorizes (mutant).
mutate_LookupFirst(user_roles, rmap, data, table) ==
    UNION { IF auth.kind # "ok"
            THEN {MutateOutcome(auth.kind, NULL, auth.field, EmptyDict, EmptyDict, NULL,
                      UpsertOutcome("none", NULL,
                                    IF Truthy(Get(data, "id")) THEN <<"get">> ELSE <<>>,
                                    {}, {}, NULL, table), auth.rmap)}
            ELSE Persist(auth, data, table) :
            auth \in _available_fields_for_user(user_roles, rmap, data) }

\* Mutation.mutate: the outcomes one call can have.
mutate(user_roles, rmap, data, table) ==
    UNION { IF auth.kind # "ok"
            THEN {MutateOutcome(auth.kind, NULL, auth.field, EmptyDict, EmptyDict, NULL,
                      UpsertOutcome("none", NULL, <<>>, {}, {}, NULL, table), auth.rmap)}
            ELSE Persist(auth, data, table) :
            auth \in _available_fields_for_user(user_roles, rmap, data) }

InitMutate ==
    /\ pc = "idle"
    /\ call = NoCall
    /\ roles_map \in RolesMaps
    /\ db \in InitialDbs
    /\ regs = <<>> /\ registry = 0 /\ types = <<>> /\ bundles = <<>>
    /\ enum_count = 0
    /\ connection_fields = <<>> /\ ENUM_CACHE = <<>>
    /\ sessions = <<>> /\ invocations = <<>> /\ promises = <<>>

CallMutate ==
    /\ pc = "idle"
    /\ \E user_roles \in MutateRoleSets, data \in MutateInputs :
          /\ WithinAllowanceBound(user_roles, roles_map)
          /\ \E out \in mutate(user_roles, roles_map, data, db) :
                /\ call' = [op |-> "mutate", user_roles |-> user_roles,
                            roles_map |-> roles_map, data |-> data, db |-> db,
                            kind |-> out.kind, cause |-> out.cause, field |-> out.field,
                            authorized |-> out.authorized, persisted |-> out.persisted,
                            found |-> out.found, session |-> out.session,
                            assigned |-> out.assigned, added |-> out.added,
                            key |-> out.key, result |-> out.result]
                /\ roles_map' = out.rmap
                /\ db' = out.db
    /\ pc' = "done"
    /\ UNCHANGED <<registryVars, connectionVars, concurrentVars>>

NextMutate == CallMutate \/ Return

SpecMutate == InitMutate /\ [][NextMutate]_vars


(***************************************************************************)
(* Claims about mutate and upsert, checked under SpecMutate.               *)
(***************************************************************************)
MutateReturned == pc = "done" /\ call.op = "mutate"

MutateSucceeded == MutateReturned /\ call.kind = "ok"

\* How many times the session operation o was invoked by the call.
Invocations(o) == Cardinality({i \in DOMAIN call.session : call.session[i] = o})

\* The input supplies a primary key (present and not null).
PkSupplied == "id" \in DOMAIN call.data /\ call.data["id"] # NULL

\* The record mutate's caller expects a creation to store: the authorized
\* fields, a relationship under its foreign-key column, under the key given.
RecordFromAuthorized(key) ==
    [c \in Columns |->
        IF c = "id" THEN key
        ELSE IF c \in Range(foreign_fields_map)
        THEN Get(call.authorized, CHOOSE r \in DOMAIN foreign_fields_map :
                                      foreign_fields_map[r] = c)
        ELSE Get(call.authorized, c)]

\* C4: on success, if the input supplies a primary key and a stored record
\* has that key, no record is added and that record is the one modified;
\* otherwise exactly one record is added, built from the authorized fields;
\* in both cases commit is invoked exactly once.
C4_CreateOrUpdate ==
    MutateSucceeded =>
        /\ Invocations("commit") = 1
        /\ IF PkSupplied /\ call.data["id"] \in DOMAIN call.db
           THEN /\ call.added = {}
                /\ call.key = call.data["id"]
                /\ DOMAIN db = DOMAIN call.db
                /\ \A k \in (DOMAIN db) \ {call.key} : db[k] = call.db[k]
           ELSE /\ Cardinality(call.added) = 1
                /\ call.added \cap (DOMAIN call.db) = {}
                /\ DOMAIN db = (DOMAIN call.db) \cup call.added
                /\ \A k \in DOMAIN call.db : db[k] = call.db[k]
                /\ \A k \in call.added : db[k] = RecordFromAuthorized(k)
                /\ Invocations("add") = 1

\* C5: on the update path a field of the existing record is assigned exactly
\* when it is among the fields handed to upsert and its value differs from
\* the record's; the other fields keep their value, and after the commit
\* every field handed over has the supplied value.
C5_AssignOnlyChanges ==
    (MutateSucceeded /\ call.found # NULL) =>
        LET old == call.db[call.found]
            new == db[call.found]
        IN /\ \A f \in Columns :
                 f \in call.assigned <=>
                     (f \in DOMAIN call.persisted /\ call.persisted[f] # old[f])
           /\ \A f \in Columns \ (DOMAIN call.persisted) : new[f] = old[f]
           /\ \A f \in DOMAIN call.persisted : new[f] = call.persisted[f]
           /\ call.assigned = {} => (db = call.db /\ call.session = <<"get", "commit">>)

\* An update whose input repeats the stored name and changes the owner: only
\* owner_id is assigned.
C5_Witness ==
    /\ MutateSucceeded
    /\ call.found = "k1"
    /\ "name" \in DOMAIN call.persisted
    /\ call.persisted["name"] = call.db["k1"]["name"]
    /\ call.persisted["name"] # NULL
    /\ call.assigned = {"owner_id"}
    /\ db["k1"]["owner_id"] = "o1"

\* C6: when a step of upsert fails, the session is rolled back once, then
\* closed once, as the last two session operations of the call; the error
\* that reaches the caller is the one the failing step raised; no record is
\* returned.
C6_RollbackCloseReraise ==
    (MutateReturned /\ call.kind = "raised") =>
        LET n == Len(call.session)
        IN /\ n >= 2
           /\ call.session[n - 1] = "rollback" /\ call.session[n] = "close"
           /\ Invocations("rollback") = 1 /\ Invocations("close") = 1
           /\ call.cause \in {"construct", "add", "assign", "commit",
                              "TypeError", "AttributeError"}
           /\ call.cause = "commit" <=> (n >= 3 /\ call.session[n - 2] = "commit")
           /\ call.cause = "add" <=> (n >= 3 /\ call.session[n - 2] = "add")
           /\ call.key = NULL /\ call.result = EmptyDict /\ call.added = {}
           /\ db = call.db

\* A commit that fails after an assignment on a found record.
C6_Witness ==
    /\ MutateReturned
    /\ call.kind = "raised" /\ call.cause = "commit"
    /\ call.found = "k1" /\ call.assigned = {"name"}
    /\ call.session = <<"get", "commit", "rollback", "close">>

\* mutate has raised one of the two errors of the authorization.
AuthorizationFailed ==
    MutateReturned /\ call.kind \in {"NoRoles", "NotAllowed"}

\* C21: when the authorization fails inside mutate, the error is the outcome
\* of the call, the session has been asked for nothing (no lookup, no add,
\* no commit), no field has been assigned, and the stored records are those
\* before the call.
C21_AuthorizationFailureTouchesNothing ==
    AuthorizationFailed =>
        /\ call.session = <<>>
        /\ call.assigned = {} /\ call.added = {}
        /\ call.found = NULL /\ call.key = NULL
        /\ call.result = EmptyDict
        /\ db = call.db

\* A field is refused in a call that names a stored record by its key.
C21_Witness ==
    /\ AuthorizationFailed
    /\ call.kind = "NotAllowed"
    /\ PkSupplied
    /\ Truthy(call.data["id"])
    /\ call.data["id"] \in DOMAIN call.db

\* The field n is outside the explicit list of every role of the map that
\* the user holds, and the user holds one.
DisallowedByAll(n) ==
    LET applicable == call.user_roles \cap (DOMAIN call.roles_map)
    IN /\ applicable # {}
       /\ n # "id"
       /\ \A r \in applicable :
             /\ call.roles_map[r].kind = "list"
             /\ n \notin Range(call.roles_map[r].fields)

\* The input gives the field n a value that is not null.
SuppliedNonNull(n) == n \in DOMAIN call.data /\ call.data[n] # NULL

\* The input names a stored record, and its value for the column n is the
\* one the record holds.
UnchangedValue(n) ==
    /\ PkSupplied
    /\ call.data["id"] \in DOMAIN call.db
    /\ n \in Columns
    /\ call.db[call.data["id"]][n] = call.data[n]

\* C23 as claimed: a call whose non-null disallowed values all equal the
\* values of the existing record is not refused.
C23_AsClaimed ==
    (/\ MutateReturned
     /\ \E n \in DOMAIN call.data : SuppliedNonNull(n) /\ DisallowedByAll(n)
     /\ \A n \in DOMAIN call.data :
           (SuppliedNonNull(n) /\ DisallowedByAll(n)) => UnchangedValue(n))
        => call.kind # "NotAllowed"

\* C23: a call that gives a non-null value to a field disallowed by every
\* applicable role is refused, whether or not the value equals that of the
\* existing record: the authorization never reads the record, and the
\* session is not used.
C23_RefusedWhateverTheRecord ==
    (/\ MutateReturned
     /\ \E n \in DOMAIN call.data : SuppliedNonNull(n) /\ DisallowedByAll(n))
        => /\ call.kind = "NotAllowed"
           /\ SuppliedNonNull(call.field) /\ DisallowedByAll(call.field)
           /\ call.session = <<>>
           /\ db = call.db

\* The name of the stored record is sent back unchanged by a user who may
\* not set it, and the call is refused for it.
C23_Witness ==
    /\ MutateReturned
    /\ SuppliedNonNull("name") /\ DisallowedByAll("name") /\ UnchangedValue("name")
    /\ call.kind = "NotAllowed" /\ call.field = "name"

\* mutate has come past the authorization.
MutateAuthorized ==
    MutateReturned /\ call.kind \notin {"NoRoles", "NotAllowed", "ValueError"}

\* C24: every authorized field that names a relationship of the foreign
\* fields map reaches upsert under the foreign-key column, with its value
\* and not under the relationship's name, whatever the value is (None
\* included); every other authorized field but the primary key reaches it
\* unchanged.
C24_RelationshipToForeignKey ==
    MutateAuthorized =>
        /\ call.kind \in {"ok", "raised"}
        /\ \A r \in (DOMAIN call.authorized) \cap (DOMAIN foreign_fields_map) :
              /\ foreign_fields_map[r] \in DOMAIN call.persisted
              /\ call.persisted[foreign_fields_map[r]] = call.authorized[r]
              /\ r \notin DOMAIN call.persisted
        /\ \A f \in (DOMAIN call.authorized) \ ((DOMAIN foreign_fields_map) \cup {"id"}) :
              /\ f \in DOMAIN call.persisted
              /\ call.persisted[f] = call.authorized[f]

(***************************************************************************)
(* Overlapping mutate invocations of one mutation type.  An invocation     *)
(* takes its session, leaves a write pending in it (the add or the         *)
(* setattr of upsert), and ends with the commit or, when a step fails,     *)
(* with rollback and close.  A commit, a rollback or a close works on      *)
(* everything pending in the session.                                      *)
(***************************************************************************)
\* A session object: where it comes from, and the invocations whose write
\* it holds uncommitted.
Session(origin) == [origin |-> origin, pending |-> {}]

\* Mutation.__init_subclass_with_meta__: _meta.session is the value of the
\* class statement, either a session (it exists from then on) or a
\* callable, which makes the session of a request when mutate calls it.
InitSessions ==
    /\ pc = "idle"
    /\ call = NoCall
    /\ roles_map = EmptyDict
    /\ db = EmptyDict
    /\ regs = <<>> /\ registry = 0 /\ types = <<>> /\ bundles = <<>>
    /\ enum_count = 0
    /\ connection_fields = <<>> /\ ENUM_CACHE = <<>>
    /\ sessions \in {<<Session("value")>>, <<>>}
    /\ invocations = <<>>
    /\ promises = <<>>

\* The invocation is between taking its session and its last session call.
InFlight(i) == invocations[i].at \in {"session", "written"}

\* mutate, lines 55-58: db_session is _meta.session, or what it returns for
\* the info of this request when it is callable.
MutateTakeSession ==
    /\ Len(invocations) < MaxInvocations
    /\ IF sessions # <<>> /\ sessions[1].origin = "value"
       THEN /\ invocations' = Append(invocations,
                                     [at |-> "session", session |-> 1, ended_by |-> 0])
            /\ UNCHANGED sessions
       ELSE /\ sessions' = Append(sessions, Session("callable"))
            /\ invocations' = Append(invocations,
                                     [at |-> "session", session |-> Len(sessions) + 1,
                                      ended_by |-> 0])
    /\ UNCHANGED <<pc, call, mutationVars, registryVars, connectionVars, promises>>

\* upsert, lines 110-116: session.add(model) or setattr on the record the
\* session loaded; the write is pending in the session.
UpsertWrite ==
    /\ \E i \in DOMAIN invocations :
          /\ invocations[i].at = "session"
          /\ sessions' = [sessions EXCEPT ![invocations[i].session].pending = @ \cup {i}]
          /\ invocations' = [invocations EXCEPT ![i].at = "written"]
    /\ UNCHANGED <<pc, call, mutationVars, registryVars, connectionVars, promises>>

\* The writes pending in the session of invocation i are ended by i.
EndPending(i) ==
    [j \in DOMAIN invocations |->
        IF j \in sessions[invocations[i].session].pending
        THEN [invocations[j] EXCEPT !.ended_by = i]
        ELSE invocations[j]]

\* upsert, line 117: session.commit() writes out all that is pending.
UpsertCommit ==
    /\ \E i \in DOMAIN invocations :
          /\ invocations[i].at = "written"
          /\ invocations' = [EndPending(i) EXCEPT ![i].at = "committed"]
          /\ sessions' = [sessions EXCEPT ![invocations[i].session].pending = {}]
    /\ UNCHANGED <<pc, call, mutationVars, registryVars, connectionVars, promises>>

\* upsert, lines 118-121: a step has failed; session.rollback() and
\* session.close() drop all that is pending.
UpsertRollbackClose ==
    /\ \E i \in DOMAIN invocations :
          /\ InFlight(i)
          /\ invocations' = [EndPending(i) EXCEPT ![i].at = "raised"]
          /\ sessions' = [sessions EXCEPT ![invocations[i].session].pending = {}]
    /\ UNCHANGED <<pc, call, mutationVars, registryVars, connectionVars, promises>>

NextSessions ==
    \/ MutateTakeSession
    \/ UpsertWrite
    \/ UpsertCommit
    \/ UpsertRollbackClose

SpecSessions == InitSessions /\ [][NextSessions]_vars

\* C22: two invocations that are in flight together work on distinct
\* sessions, and the write of an invocation is committed or dropped by no
\* invocation but itself, whether the session is configured as a value or
\* as a callable.
C22_DistinctSessions ==
    /\ \A i, j \in DOMAIN invocations :
          (i # j /\ InFlight(i) /\ InFlight(j)) =>
              invocations[i].session # invocations[j].session
    /\ \A i \in DOMAIN invocations : invocations[i].ended_by \in {0, i}

(***************************************************************************)
(* The registry (registry.py), the attributes bundles (converter.py) and   *)
(* the output types (objecttype.py).  Objects are known by their index in  *)
(* the sequence that records their creation, so two objects are the same   *)
(* object exactly when their indexes are equal.                            *)
(***************************************************************************)
\* Registry.__init__: four empty namespaces.
EmptyRegistry ==
    [models |-> EmptyDict, composites |-> EmptyDict,
     attributes |-> EmptyDict, enums |-> EmptyDict]

\* The mapped model classes; "Plain" is a class that is not mapped.
Models == {"A", "B"}

Classes == Models \cup {"Plain"}

\* The registry argument of a call: 0 is None, -1 an object that is no Registry.
NotARegistry == -1

\* The model the direct calls of convert_model_to_attributes convert.
ConvertModels == {"A"}

\* only_fields / exclude_fields of a call.
Filters ==
    { [only |-> {}, exclude |-> {}],
      [only |-> {"id"}, exclude |-> {"name"}] }

\* The registry variables as one value, threaded through nested calls.
World ==
    [regs |-> regs, registry |-> registry, types |-> types, bundles |-> bundles,
     enum_count |-> enum_count]

\* get_global_registry that makes a Registry on every call (mutant).
get_global_registry_AlwaysNew(w) ==
    [w |-> [w EXCEPT !.regs = Append(@, EmptyRegistry),
                     !.registry = Len(w.regs) + 1],
     reg |-> Len(w.regs) + 1]

\* get_global_registry: the global Registry, created on first use.
get_global_registry(w) ==
    IF w.registry = 0
    THEN [w |-> [w EXCEPT !.regs = Append(@, EmptyRegistry),
                          !.registry = Len(w.regs) + 1],
          reg |-> Len(w.regs) + 1]
    ELSE [w |-> w, reg |-> w.registry]

\* reset_global_registry.
reset_global_registry(w) == [w EXCEPT !.registry = 0]

\* Registry.register(cls): the class must derive from the ObjectType of
\* types.py and its own registry must be this one; the model's entry is set
\* to the class.
register(w, r, t) ==
    IF w.types[t].base # "types.ObjectType" \/ w.types[t].registry # r
    THEN [kind |-> "AssertionError", w |-> w]
    ELSE [kind |-> "ok",
          w |-> [w EXCEPT !.regs[r].models =
                    Update(@, [k \in {w.types[t].model} |-> t])]]

\* Registry.register_attributes(attributes_cls), keyed by the class name.
register_attributes(w, r, b) ==
    [w EXCEPT !.regs[r].attributes = Update(@, [k \in {w.bundles[b].name} |-> b])]

\* Registry.register_composite_converter(composite, converter).
register_composite_converter(w, r, composite, converter) ==
    [w EXCEPT !.regs[r].composites = Update(@, [k \in {composite} |-> converter])]

\* Registry.register_enum(enum), keyed by the enum's name.
register_enum(w, r, enum) ==
    [w EXCEPT !.regs[r].enums = Update(@, [k \in {enum.name} |-> enum])]

WithinRegistryBounds(w) ==
    /\ Len(w.regs) <= MaxRegistries
    /\ Len(w.types) <= MaxTypes
    /\ Len(w.bundles) <= MaxBundles
    /\ w.enum_count <= MaxEnumTypes

\* The call leaves the registry variables as w; before is kept in the call.
RegistryCall(record, w) ==
    /\ pc = "idle"
    /\ WithinRegistryBounds(w)
    /\ call' = record
    /\ regs' = w.regs /\ registry' = w.registry
    /\ types' = w.types /\ bundles' = w.bundles
    /\ enum_count' = w.enum_count
    /\ pc' = "done"
    /\ UNCHANGED <<mutationVars, connectionVars, concurrentVars>>

\* Registry(): a registry of the caller's own.
NewRegistry ==
    RegistryCall([op |-> "Registry", result |-> Len(regs) + 1],
                 [World EXCEPT !.regs = Append(@, EmptyRegistry)])

CallGetGlobalRegistry ==
    RegistryCall([op |-> "get_global_registry", before |-> registry,
                  result |-> get_global_registry(World).reg],
                 get_global_registry(World).w)

CallResetGlobalRegistry ==
    RegistryCall([op |-> "reset_global_registry"], reset_global_registry(World))

CallRegister ==
    \E r \in DOMAIN regs, t \in DOMAIN types :
        RegistryCall([op |-> "register", reg |-> r, type |-> t,
                      kind |-> register(World, r, t).kind],
                     register(World, r, t).w)

CallRegisterAttributes ==
    \E r \in DOMAIN regs, b \in DOMAIN bundles :
        RegistryCall([op |-> "register_attributes", reg |-> r, bundle |-> b],
                     register_attributes(World, r, b))

CallRegisterCompositeConverter ==
    \E r \in DOMAIN regs, converter \in {"PointType", "PointInputType"} :
        RegistryCall([op |-> "register_composite_converter", reg |-> r,
                      converter |-> converter],
                     register_composite_converter(World, r, "Point", converter))

\* register_enum of an enum type made before, or of one made for this call.
CallRegisterEnum ==
    \E r \in DOMAIN regs, id \in 1..(enum_count + 1) :
        RegistryCall([op |-> "register_enum", reg |-> r, id |-> id],
                     register_enum([World EXCEPT !.enum_count =
                                      IF id > @ THEN id ELSE @],
                                  r, [name |-> "Color", id |-> id]))

InitRegistry ==
    /\ pc = "idle"
    /\ call = NoCall
    /\ roles_map = EmptyDict
    /\ db = EmptyDict
    /\ regs = <<>> /\ registry = 0 /\ types = <<>> /\ bundles = <<>>
    /\ enum_count = 0
    /\ connection_fields = <<>> /\ ENUM_CACHE = <<>>
    /\ sessions = <<>> /\ invocations = <<>> /\ promises = <<>>

(***************************************************************************)
(* The converters of column types (converter.py) and the required-ness of  *)
(* a column (utils.py).  A column is a record of the attributes the        *)
(* converters read; its type is a record of the type's class (kind) and    *)
(* the attributes of that class.  The connection_field_factory argument    *)
(* is passed along untouched by every converter below and is left out.     *)
(***************************************************************************)
\* A column type: item is the class of an ARRAY's items, enum_class the
\* name of the Enum class of an Enum (the choices of a ChoiceType), NULL
\* when the options are a plain list.
SqlType(kind, as_uuid, item, enum_class) ==
    [kind |-> kind, as_uuid |-> as_uuid, item |-> item, enum_class |-> enum_class]

PlainKinds ==
    {"String", "Integer", "Float", "Boolean", "DateTime", "Date", "Time", "JSON",
     "Table", "CompositeType", "LargeBinary"}

ItemKinds == {"String", "Integer"}

ColumnTypes ==
    {SqlType(k, FALSE, "", NULL) : k \in PlainKinds}
        \cup {SqlType("UUID", u, "", NULL) : u \in BOOLEAN}
        \cup {SqlType(k, FALSE, "", e) : k \in {"Enum", "ChoiceType"}, e \in {NULL, "Color"}}
        \cup {SqlType("ARRAY", FALSE, i, NULL) : i \in ItemKinds}

ColumnsOfTypes ==
    [name : {"col"}, type : ColumnTypes, primary_key : BOOLEAN,
     nullable : BOOLEAN, default : {NULL, "d"}]

\* is_column_nullable: a column without the attribute is nullable.
is_column_nullable(column) ==
    IF "nullable" \in DOMAIN column THEN column.nullable ELSE TRUE

\* is_column_has_default.
is_column_has_default(column) ==
    IF "default" \in DOMAIN column THEN column.default # NULL ELSE FALSE

\* is_column_required that takes no account of the default (mutant).
is_column_required_DefaultIgnored(column, for_input) ==
    ~is_column_nullable(column)

\* is_column_required(column, for_input).
is_column_required(column, for_input) ==
    IF for_input
    THEN ~(is_column_has_default(column) \/ is_column_nullable(column))
    ELSE ~is_column_nullable(column)

NoField == [type |-> "", name |-> "", required |-> FALSE, of |-> "", enum |-> 0]

\* A converter that returns a field, and one that raises.
Converted(w, field) == [kind |-> "ok", field |-> field, w |-> w]

ConvertRaised(w, kind) == [kind |-> kind, field |-> NoField, w |-> w]

\* The field the scalar converters construct: graphene_type(name=name or
\* f.name, required=not optional_field and is_required).
GrapheneField(graphene_type, f, name, input_attributes, optional_field) ==
    [type |-> graphene_type,
     name |-> IF name # NULL THEN name ELSE f.name,
     required |-> ~optional_field /\ is_column_required(f, input_attributes),
     of |-> "", enum |-> 0]

\* convert_id_field: outside input mode the column must be required.
convert_id_field(w, t, f, name, reg, input_attributes, optional_field) ==
    IF ~(input_attributes \/ is_column_required(f, input_attributes))
    THEN ConvertRaised(w, "AssertionError")
    ELSE Converted(w, GrapheneField("ID", f, name, input_attributes, optional_field))

\* convert_str_field that keeps the native scalar for a primary key (mutant).
convert_str_field_NoPromotion(w, t, f, name, reg, input_attributes, optional_field) ==
    Converted(w, GrapheneField("String", f, name, input_attributes, optional_field))

convert_str_field(w, t, f, name, reg, input_attributes, optional_field) ==
    IF f.primary_key
    THEN convert_id_field(w, t, f, name, reg, input_attributes, optional_field)
    ELSE Converted(w, GrapheneField("String", f, name, input_attributes, optional_field))

convert_uuid_field(w, t, f, name, reg, input_attributes, optional_field) ==
    IF f.primary_key
    THEN convert_id_field(w, t, f, name, reg, input_attributes, optional_field)
    ELSE IF ~f.type.as_uuid
    THEN convert_str_field(w, t, f, name, reg, input_attributes, optional_field)
    ELSE Converted(w, GrapheneField("UUID", f, name, input_attributes, optional_field))

\* convert_int_field: the identifier of a primary key is named after the
\* column, whatever name was asked for.
convert_int_field(w, t, f, name, reg, input_attributes, optional_field) ==
    IF f.primary_key
    THEN convert_id_field(w, t, f, NULL, reg, input_attributes, optional_field)
    ELSE Converted(w, GrapheneField("Int", f, name, input_attributes, optional_field))

convert_float_field(w, t, f, name, reg, input_attributes, optional_field) ==
    Converted(w, GrapheneField("Float", f, name, input_attributes, optional_field))

convert_bool_field(w, t, f, name, reg, input_attributes, optional_field) ==
    Converted(w, GrapheneField("Boolean", f, name, input_attributes, optional_field))

\* The converter registered for DateTime; the later function of the same
\* name is the one registered for Time.
convert_datetime_field(w, t, f, name, reg, input_attributes, optional_field) ==
    Converted(w, GrapheneField("DateTime", f, name, input_attributes, optional_field))

convert_date_field(w, t, f, name, reg, input_attributes, optional_field) ==
    Converted(w, GrapheneField("Date", f, name, input_attributes, optional_field))

convert_time_field(w, t, f, name, reg, input_attributes, optional_field) ==
    Converted(w, GrapheneField("Time", f, name, input_attributes, optional_field))

convert_json_field(w, t, f, name, reg, input_attributes, optional_field) ==
    Converted(w, GrapheneField("JSONString", f, name, input_attributes, optional_field))

\* The enum type registered under the name, or a new one that is then
\* registered; the name is read off the Enum class before anything else.
EnumTypeFor(w, reg, enum_class) ==
    IF enum_class \in DOMAIN w.regs[reg].enums
    THEN [w |-> w, enum |-> w.regs[reg].enums[enum_class]]
    ELSE LET made == [name |-> enum_class, id |-> w.enum_count + 1]
         IN [w |-> register_enum([w EXCEPT !.enum_count = @ + 1], reg, made),
             enum |-> made]

\* convert_enum_field: enum_class.__name__ is read first, and an Enum of
\* plain string options has no enum_class.
convert_enum_field(w, t, f, name, reg, input_attributes, optional_field) ==
    IF t.enum_class = NULL
    THEN ConvertRaised(w, "AttributeError")
    ELSE LET e == EnumTypeFor(w, reg, t.enum_class)
         IN Converted(e.w,
                [GrapheneField("Field", f, name, input_attributes, optional_field)
                    EXCEPT !.of = e.enum.name, !.enum = e.enum.id])

\* convert_choice_type_field: choices.__name__ is read first, and a list of
\* choices has no __name__.
convert_choice_type_field(w, t, f, name, reg, input_attributes, optional_field) ==
    IF t.enum_class = NULL
    THEN ConvertRaised(w, "AttributeError")
    ELSE LET e == EnumTypeFor(w, reg, t.enum_class)
         IN Converted(e.w,
                [GrapheneField("Field", f, name, input_attributes, optional_field)
                    EXCEPT !.of = e.enum.name, !.enum = e.enum.id])

\* convert_table: graphene.Dynamic takes none of name, description and
\* required, and is given no type.
convert_table(w, t, f, name, reg, input_attributes, optional_field) ==
    ConvertRaised(w, "TypeError")

\* convert_composite_type_field: convert_sqlalchemy_composite receives the
\* registry as its name and the connection field factory as its registry,
\* and get_converter_for_composite is no attribute of a factory.
convert_composite_type_field(w, t, f, name, reg, input_attributes, optional_field) ==
    ConvertRaised(w, "AttributeError")

RECURSIVE convert_sqlalchemy_type(_, _, _, _, _, _, _)

\* convert_array_field: the item type is converted with the column and the
\* mode of the call, without its optional_field; the list is of the class
\* of the item's field.
convert_array_field(w, t, f, name, reg, input_attributes, optional_field) ==
    LET field == convert_sqlalchemy_type(w, SqlType(t.item, FALSE, "", NULL), f, name,
                                         reg, input_attributes, FALSE)
    IN IF field.kind # "ok"
       THEN field
       ELSE Converted(field.w,
                [GrapheneField("List", f, name, input_attributes, optional_field)
                    EXCEPT !.of = field.field.type])

\* convert_sqlalchemy_type: the dispatch on the class of the type; a class
\* without a converter raises.
convert_sqlalchemy_type(w, t, f, name, reg, input_attributes, optional_field) ==
    CASE t.kind = "UUID" ->
            convert_uuid_field(w, t, f, name, reg, input_attributes, optional_field)
      [] t.kind = "String" ->
            convert_str_field(w, t, f, name, reg, input_attributes, optional_field)
      [] t.kind = "Integer" ->
            convert_int_field(w, t, f, name, reg, input_attributes, optional_field)
      [] t.kind = "Float" ->
            convert_float_field(w, t, f, name, reg, input_attributes, optional_field)
      [] t.kind = "Boolean" ->
            convert_bool_field(w, t, f, name, reg, input_attributes, optional_field)
      [] t.kind = "DateTime" ->
            convert_datetime_field(w, t, f, name, reg, input_attributes, optional_field)
      [] t.kind = "Date" ->
            convert_date_field(w, t, f, name, reg, input_attributes, optional_field)
      [] t.kind = "Time" ->
            convert_time_field(w, t, f, name, reg, input_attributes, optional_field)
      [] t.kind = "JSON" ->
            convert_json_field(w, t, f, name, reg, input_attributes, optional_field)
      [] t.kind = "Enum" ->
            convert_enum_field(w, t, f, name, reg, input_attributes, optional_field)
      [] t.kind = "ChoiceType" ->
            convert_choice_type_field(w, t, f, name, reg, input_attributes,
                                      optional_field)
      [] t.kind = "ARRAY" ->
            convert_array_field(w, t, f, name, reg, input_attributes, optional_field)
      [] t.kind = "Table" ->
            convert_table(w, t, f, name, reg, input_attributes, optional_field)
      [] t.kind = "CompositeType" ->
            convert_composite_type_field(w, t, f, name, reg, input_attributes,
                                         optional_field)
      [] OTHER -> ConvertRaised(w, "Exception")

\* convert_sqlalchemy_field: the converter of the column's own type.
convert_sqlalchemy_field(w, f, name, reg, input_attributes, optional_field) ==
    convert_sqlalchemy_type(w, f.type, f, name, reg, input_attributes,
                            optional_field)

CallConvertSqlalchemyField ==
    /\ pc = "idle"
    /\ \E f \in ColumnsOfTypes, name \in {NULL, "alias"}, r \in DOMAIN regs,
          input_attributes \in BOOLEAN, optional_field \in BOOLEAN :
           \E c \in {convert_sqlalchemy_field(World, f, name, r, input_attributes,
                                                optional_field)} :
              RegistryCall([op |-> "convert_sqlalchemy_field", kind |-> c.kind,
                            column |-> f, name |-> name, reg |-> r,
                            input_attributes |-> input_attributes,
                            optional_field |-> optional_field,
                            field |-> c.field],
                           c.w)

\* The conversion of single columns against the global registry.
NextConvert ==
    \/ CallGetGlobalRegistry
    \/ CallConvertSqlalchemyField
    \/ Return

SpecConvert == InitRegistry /\ [][NextConvert]_vars

(***************************************************************************)
(* Claims about the converters.                                            *)
(***************************************************************************)
FieldConverted ==
    pc = "done" /\ call.op = "convert_sqlalchemy_field" /\ call.kind = "ok"

\* C10: the field a converter produces for a column is not required when
\* the optional override is set; otherwise, outside input mode it is
\* required exactly when the column is not nullable, and in input mode
\* exactly when the column is not nullable and has no default.
C10_RequiredLaw ==
    FieldConverted =>
        (call.field.required <=>
            IF call.optional_field
            THEN FALSE
            ELSE IF call.input_attributes
            THEN ~call.column.nullable /\ call.column.default = NULL
            ELSE ~call.column.nullable)

\* An input field of a column that is not nullable and has a default: the
\* field is not required, though the override is not set.
C10_Witness ==
    /\ FieldConverted
    /\ call.input_attributes /\ ~call.optional_field
    /\ ~call.column.nullable /\ call.column.default # NULL
    /\ call.field.type = "Int"
    /\ ~call.field.required

\* A call that converted a primary-key column of string, integer or UUID kind.
PkColumnCall ==
    /\ pc = "done" /\ call.op = "convert_sqlalchemy_field"
    /\ call.column.primary_key
    /\ call.column.type.kind \in {"String", "Integer", "UUID"}

\* C11 as claimed: every primary-key column of string, integer or UUID kind
\* converts, in both modes and for every nullability and default, to an
\* identifier field.
C11_AsClaimed ==
    PkColumnCall => (call.kind = "ok" /\ call.field.type = "ID")

\* C11: a primary-key column of string, integer or UUID kind converts in
\* input mode always and outside input mode exactly when it is not nullable;
\* a conversion that succeeds gives an identifier field, never the native
\* scalar, and the other conversions raise the assertion of convert_id_field.
C11_PrimaryKeyIsIdOrRefused ==
    PkColumnCall =>
        /\ call.kind = "ok" <=> (call.input_attributes \/ ~call.column.nullable)
        /\ call.kind = "ok" => call.field.type = "ID"
        /\ call.kind # "ok" => call.kind = "AssertionError"

\* A nullable string primary key with a default, converted in input mode.
C11_Witness ==
    /\ PkColumnCall
    /\ call.kind = "ok" /\ call.field.type = "ID"
    /\ call.column.type.kind = "String"
    /\ call.input_attributes /\ call.column.nullable /\ call.column.default # NULL

\* An enumeration column has been converted.
EnumColumnCall ==
    /\ pc = "done" /\ call.op = "convert_sqlalchemy_field"
    /\ call.column.type.kind = "Enum"

\* C20: every conversion of an enumeration column succeeds, whether the
\* column names a native enum class or only string options; the enum type
\* of the field is the one the registry holds under its name, and no more
\* enum types have been made than the registry holds names.
C20_EnumByName ==
    EnumColumnCall =>
        /\ call.kind = "ok"
        /\ call.field.of \in DOMAIN regs[call.reg].enums
        /\ regs[call.reg].enums[call.field.of].id = call.field.enum
        /\ enum_count = Cardinality(DOMAIN regs[call.reg].enums)

(***************************************************************************)
(* The classifier iter_fields and the assembly of fields construct_fields  *)
(* (converter.py).  A mapper is a record of the five collections that      *)
(* iter_fields reads, each a sequence in the mapper's own order.           *)
(***************************************************************************)
Column(name, kind, primary_key, nullable) ==
    [name |-> name, type |-> SqlType(kind, FALSE, "", NULL),
     primary_key |-> primary_key, nullable |-> nullable, default |-> NULL]

\* relationship(target): to_one is direction == MANYTOONE or not uselist;
\* fks is _user_defined_foreign_keys, the columns of a foreign_keys argument
\* (at most one here), empty when the relationship declares none; local is
\* the name of the column of this model that backs the relationship, NULL
\* when the foreign key is on the other side.
Relationship(key, to_one, fks, local, target) ==
    [key |-> key, to_one |-> to_one, fks |-> fks, local |-> local, target |-> target]

\* The mapper of the model Pet: owner is backed by the column owner_id,
\* title is a synonym; declared says whether owner names its foreign key,
\* syn_target is the attribute the synonym points at.
PetMapper(declared, syn_target) ==
    [entity |-> "Pet",
     relationships |->
        << Relationship("owner", TRUE,
                        IF declared
                        THEN {Column("owner_id", "Integer", FALSE, TRUE)} ELSE {},
                        "owner_id", "Owner"),
           Relationship("tags", FALSE, {}, NULL, "Tag") >>,
     composites |-> << [name |-> "point"] >>,
     columns |-> << Column("id", "Integer", TRUE, FALSE),
                    Column("name", "String", FALSE, TRUE),
                    Column("owner_id", "Integer", FALSE, TRUE) >>,
     synonyms |-> << [key |-> "title", name |-> syn_target] >>,
     all_orm_descriptors |->
        << [hybrid |-> TRUE, name |-> "label", info_type |-> NULL],
           [hybrid |-> FALSE, name |-> "proxy", info_type |-> NULL] >>]

\* The mapper of a Pet that also keeps a column stored under the database
\* name label (pet_label = Column('label', Integer)) next to its hybrid
\* property label: iter_fields yields columns by f.name and hybrid
\* properties by f.__name__, so the name label comes twice.
LabelledPetMapper ==
    [PetMapper(TRUE, "name") EXCEPT
        !.columns = @ \o << Column("label", "Integer", FALSE, TRUE) >>]

Mappers ==
    {PetMapper(d, "name") : d \in BOOLEAN}
        \cup {PetMapper(TRUE, "owner"), LabelledPetMapper}

\* only_fields and exclude_fields of the calls.
OnlyFields == {{}, {"title"}, {"name"}, {"owner", "id", "owner_id"}, {"label", "point"}}

ExcludeFields == {{}, {"title"}, {"name"}, {"owner"}, {"label", "tags"}}

\* _skip_field_with_name.
SkipFieldWithName(name, only_fields, exclude_fields) ==
    (only_fields # {} /\ name \notin only_fields) \/ name \in exclude_fields

\* What iter_fields yields for one member.
Yield(name, field, type) == [name |-> name, field |-> field, type |-> type]

\* A sequence with the members that do not pass the test left out.
RECURSIVE Keep(_, _)
Keep(seq, S) ==
    IF seq = <<>> THEN <<>>
    ELSE IF Head(seq) \in S THEN <<Head(seq)>> \o Keep(Tail(seq), S)
    ELSE Keep(Tail(seq), S)

\* getattr(columns, name).
ColumnsNamed(columns, name) ==
    {columns[i] : i \in {j \in DOMAIN columns : columns[j].name = name}}

\* The loop of iter_fields over the synonyms: the column a synonym points
\* at is yielded under the synonym's key, and it is the column's own name
\* that is tested against the filters; a synonym of something that is no
\* column raises.
RECURSIVE IterSynonyms(_, _, _, _)
IterSynonyms(synonyms, columns, only_fields, exclude_fields) ==
    IF synonyms = <<>> THEN [kind |-> "ok", items |-> <<>>]
    ELSE LET f == Head(synonyms)
             found == ColumnsNamed(columns, f.name)
         IN IF found = {}
            THEN [kind |-> "AttributeError", items |-> <<>>]
            ELSE LET field == CHOOSE c \in found : TRUE
                     rest == IterSynonyms(Tail(synonyms), columns, only_fields,
                                          exclude_fields)
                 IN IF SkipFieldWithName(field.name, only_fields, exclude_fields)
                    THEN rest
                    ELSE [kind |-> rest.kind,
                          items |-> <<Yield(f.key, field, "scalar")>> \o rest.items]

\* The yields of iter_fields for the relationships, the composites, the
\* columns and the hybrid properties, each in the mapper's order.
IterRelationships(mapper, only_fields, exclude_fields) ==
    LET kept == Keep(mapper.relationships,
                     {f \in Range(mapper.relationships) :
                         ~SkipFieldWithName(f.key, only_fields, exclude_fields)})
    IN [i \in DOMAIN kept |-> Yield(kept[i].key, kept[i], "relationship")]

IterComposites(mapper, only_fields, exclude_fields) ==
    LET kept == Keep(mapper.composites,
                     {f \in Range(mapper.composites) :
                         ~SkipFieldWithName(f.name, only_fields, exclude_fields)})
    IN [i \in DOMAIN kept |-> Yield(kept[i].name, kept[i], "composite")]

IterColumns(mapper, only_fields, exclude_fields) ==
    LET kept == Keep(mapper.columns,
                     {f \in Range(mapper.columns) :
                         ~SkipFieldWithName(f.name, only_fields, exclude_fields)})
    IN [i \in DOMAIN kept |-> Yield(kept[i].name, kept[i], "scalar")]

IterHybrids(mapper, only_fields, exclude_fields) ==
    LET kept == Keep(mapper.all_orm_descriptors,
                     {f \in Range(mapper.all_orm_descriptors) :
                         f.hybrid /\ ~SkipFieldWithName(f.name, only_fields,
                                                        exclude_fields)})
    IN [i \in DOMAIN kept |-> Yield(kept[i].name, kept[i], "hybrid")]

\* iter_fields that goes through the columns first (mutant).
iter_fields_ColumnsFirst(mapper, only_fields, exclude_fields) ==
    LET syn == IterSynonyms(mapper.synonyms, mapper.columns, only_fields,
                            exclude_fields)
        before == IterColumns(mapper, only_fields, exclude_fields)
                    \o IterRelationships(mapper, only_fields, exclude_fields)
                    \o IterComposites(mapper, only_fields, exclude_fields)
                    \o syn.items
    IN IF syn.kind # "ok"
       THEN [kind |-> syn.kind, items |-> before]
       ELSE [kind |-> "ok",
             items |-> before \o IterHybrids(mapper, only_fields, exclude_fields)]

\* iter_fields(model, only_fields, exclude_fields): the members yielded, in
\* order; when a synonym raises, the members yielded before it.
iter_fields(mapper, only_fields, exclude_fields) ==
    LET syn == IterSynonyms(mapper.synonyms, mapper.columns, only_fields,
                            exclude_fields)
        before == IterRelationships(mapper, only_fields, exclude_fields)
                    \o IterComposites(mapper, only_fields, exclude_fields)
                    \o IterColumns(mapper, only_fields, exclude_fields)
                    \o syn.items
    IN IF syn.kind # "ok"
       THEN [kind |-> syn.kind, items |-> before]
       ELSE [kind |-> "ok",
             items |-> before \o IterHybrids(mapper, only_fields, exclude_fields)]

\* The names and kinds of a sequence of yields, with the name of the member
\* behind each.
Yielded(items) ==
    [i \in DOMAIN items |->
        [name |-> items[i].name, type |-> items[i].type,
         member |-> IF items[i].type = "relationship"
                    THEN items[i].field.key ELSE items[i].field.name]]

\* convert_sqlalchemy_model_to_scheme: its first statement calls
\* registry.get_type_for_relationship_input, and Registry has no such method.
convert_sqlalchemy_model_to_scheme(w, model, name, classname, reg, input_attributes) ==
    ConvertRaised(w, "AttributeError")

\* convert_sqlalchemy_relationship that looks the target's type up while
\* the field is built (mutant).
convert_sqlalchemy_relationship_Eager(w, relationship, name, reg, input_attributes) ==
    IF relationship.target \in DOMAIN w.regs[reg].models
    THEN Converted(w, [NoField EXCEPT !.type = "Field", !.of = relationship.target])
    ELSE ConvertRaised(w, "Exception")

\* convert_sqlalchemy_relationship: outside input mode a Dynamic field whose
\* closure holds the relationship and the registry and reads nothing of the
\* registry's contents; in input
\* mode the first declared foreign key of a to-one relationship, converted
\* as an optional scalar (there is none to read the type of when the
\* relationship declares no foreign key), and for a to-many relationship a
\* list of the nested input type of the target.
convert_sqlalchemy_relationship(w, relationship, name, reg, input_attributes) ==
    IF ~input_attributes
    THEN Converted(w, [type |-> "Dynamic", relationship |-> relationship, reg |-> reg])
    ELSE IF relationship.to_one
    THEN IF relationship.fks = {}
         THEN ConvertRaised(w, "AttributeError")
         ELSE convert_sqlalchemy_field(w, CHOOSE c \in relationship.fks : TRUE, name,
                                       reg, input_attributes, TRUE)
    ELSE LET nested == convert_sqlalchemy_model_to_scheme(
                           w, relationship.target, name,
                           relationship.target \o "RelationshipInput", reg,
                           input_attributes)
         IN IF nested.kind # "ok"
            THEN nested
            ELSE Converted(nested.w,
                    [NoField EXCEPT !.type = "List", !.of = nested.field.of,
                                    !.required = is_column_required(relationship,
                                                                    input_attributes)])

\* convert_sqlalchemy_hybrid_method for a property whose info names no type.
convert_sqlalchemy_hybrid_method(w, f, name, reg, input_attributes) ==
    Converted(w, [NoField EXCEPT !.type = "String",
                                 !.name = IF name # NULL THEN name ELSE f.name])

\* The call of the converter in construct_fields: conv_fn(type, field, name,
\* registry=..., connection_field_factory=..., input_attributes=...).  For a
\* composite the third positional argument already is the registry of
\* convert_sqlalchemy_composite.
ConvFn(w, item, reg, input_attributes) ==
    CASE item.type = "scalar" ->
            convert_sqlalchemy_field(w, item.field, item.name, reg, input_attributes, FALSE)
      [] item.type = "relationship" ->
            convert_sqlalchemy_relationship(w, item.field, item.name, reg,
                                            input_attributes)
      [] item.type = "hybrid" ->
            convert_sqlalchemy_hybrid_method(w, item.field, item.name, reg,
                                             input_attributes)
      [] OTHER -> ConvertRaised(w, "TypeError")

\* The name construct_fields notes for a relationship: that of its first
\* declared foreign key, or the relationship's own name.
ForeignKeyName(item) ==
    IF item.field.fks = {} THEN item.name
    ELSE (CHOOSE c \in item.field.fks : TRUE).name

\* The loop of construct_fields over the yields of iter_fields.
RECURSIVE ConstructLoop(_, _, _, _, _, _, _, _)
ConstructLoop(w, items, reg, field_types, type_cast, input_attributes, fields, relationship_keys) ==
    IF items = <<>>
    THEN [kind |-> "ok", fields |-> fields, w |-> w]
    ELSE LET item == Head(items)
             keys == IF item.type = "relationship"
                     THEN relationship_keys \cup {ForeignKeyName(item)}
                     ELSE relationship_keys
         IN IF item.type \notin field_types
            THEN ConstructLoop(w, Tail(items), reg, field_types, type_cast,
                               input_attributes, fields, relationship_keys)
            ELSE IF item.type = "scalar" /\ item.name \in relationship_keys
            THEN ConstructLoop(w, Tail(items), reg, field_types, type_cast,
                               input_attributes, fields, relationship_keys)
            ELSE Bind(IF item.name \in DOMAIN type_cast
                      THEN Converted(w,
                              [NoField EXCEPT
                                  !.type = type_cast[item.name],
                                  !.required = is_column_required(item.field,
                                                                  input_attributes)])
                      ELSE ConvFn(w, item, reg, input_attributes),
                      LAMBDA converted :
                 IF converted.kind # "ok"
                 THEN [kind |-> converted.kind, fields |-> fields, w |-> converted.w]
                 ELSE Bind(Update(fields, [n \in {item.name} |-> converted.field]),
                           LAMBDA updated :
                      ConstructLoop(converted.w, Tail(items), reg, field_types,
                                    type_cast, input_attributes, updated, keys)))

\* construct_fields(model, registry, only_fields, exclude_fields, field_types,
\* type_cast, connection_field_factory, input_attributes).
construct_fields(w, mapper, reg, only_fields, exclude_fields, field_types, type_cast, input_attributes) ==
    Bind(iter_fields(mapper, only_fields, exclude_fields), LAMBDA it :
    Bind(ConstructLoop(w, it.items, reg, field_types, type_cast,
                       input_attributes, EmptyDict, {}), LAMBDA looped :
         IF looped.kind = "ok" /\ it.kind # "ok"
         THEN [looped EXCEPT !.kind = it.kind]
         ELSE looped))

\* The kinds of members the callers of construct_fields ask for.
FieldTypeSets ==
    { {"scalar", "relationship"}, {"composite", "hybrid", "relationship"},
      {"scalar", "relationship", "hybrid"} }

TypeCasts == {EmptyDict, [n \in {"name"} |-> "Int"]}

CallConstructFields ==
    /\ pc = "idle"
    /\ \E mapper \in Mappers, r \in DOMAIN regs, only_fields \in OnlyFields,
          exclude_fields \in ExcludeFields, field_types \in FieldTypeSets,
          type_cast \in TypeCasts, input_attributes \in BOOLEAN :
           \E c \in {construct_fields(World, mapper, r, only_fields, exclude_fields,
                                        field_types, type_cast, input_attributes)} :
              RegistryCall([op |-> "construct_fields", kind |-> c.kind,
                            mapper |-> mapper, reg |-> r,
                            only_fields |-> only_fields,
                            exclude_fields |-> exclude_fields,
                            field_types |-> field_types, type_cast |-> type_cast,
                            input_attributes |-> input_attributes,
                            fields |-> c.fields],
                           c.w)

\* The conversion of one relationship of a mapper.
CallConvertSqlalchemyRelationship ==
    /\ pc = "idle"
    /\ \E mapper \in Mappers, r \in DOMAIN regs, input_attributes \in BOOLEAN :
           \E i \in DOMAIN mapper.relationships :
               LET relationship == mapper.relationships[i]
                   c == convert_sqlalchemy_relationship(World, relationship,
                                                        relationship.key, r,
                                                        input_attributes)
               IN RegistryCall([op |-> "convert_sqlalchemy_relationship",
                                kind |-> c.kind, relationship |-> relationship,
                                reg |-> r, input_attributes |-> input_attributes,
                                field |-> c.field],
                               c.w)

\* Two runs of the generator over one mapper.
CallIterFields ==
    /\ pc = "idle"
    /\ \E mapper \in Mappers, only_fields \in OnlyFields, exclude_fields \in ExcludeFields :
          LET first == iter_fields(mapper, only_fields, exclude_fields)
              second == iter_fields(mapper, only_fields, exclude_fields)
          IN call' = [op |-> "iter_fields", mapper |-> mapper,
                      only_fields |-> only_fields, exclude_fields |-> exclude_fields,
                      kind |-> first.kind, yielded |-> Yielded(first.items),
                      again |-> Yielded(second.items)]
    /\ pc' = "done"
    /\ UNCHANGED <<mutationVars, registryVars, connectionVars, concurrentVars>>

\* The classification of single models and the assembly of their fields.
NextFields ==
    \/ CallGetGlobalRegistry
    \/ CallIterFields
    \/ CallConstructFields
    \/ CallConvertSqlalchemyRelationship
    \/ Return

SpecFields == InitRegistry /\ [][NextFields]_vars

(***************************************************************************)
(* Claims about the classifier.                                            *)
(***************************************************************************)
IterReturned == pc = "done" /\ call.op = "iter_fields"

\* The place of a yield in the precedence: relationship, composite, plain
\* column, synonym, hybrid property.
Precedence(y) ==
    CASE y.type = "relationship" -> 1
      [] y.type = "composite" -> 2
      [] y.type = "scalar" /\ y.name = y.member -> 3
      [] y.type = "scalar" /\ y.name # y.member -> 4
      [] OTHER -> 5

PublicNames(mapper) ==
    {f.key : f \in Range(mapper.relationships) \cup Range(mapper.synonyms)}
        \cup {f.name : f \in Range(mapper.composites) \cup Range(mapper.columns)}
        \cup {f.name : f \in {d \in Range(mapper.all_orm_descriptors) : d.hybrid}}

\* C14: the names iter_fields yields are exactly the public names of the
\* model's members that pass the filters: in only_fields when that is not
\* empty, and not in exclude_fields; a synonym counts under its alias.
C14_FilterByPublicName ==
    IterReturned =>
        {call.yielded[i].name : i \in DOMAIN call.yielded}
            = {n \in PublicNames(call.mapper) :
                  ~SkipFieldWithName(n, call.only_fields, call.exclude_fields)}

\* A call of construct_fields outside input mode that wants scalars and
\* relationships, filters nothing, casts nothing, and returns.
FieldsAssembled ==
    /\ pc = "done" /\ call.op = "construct_fields" /\ call.kind = "ok"
    /\ ~call.input_attributes
    /\ {"scalar", "relationship"} \subseteq call.field_types
    /\ call.only_fields = {} /\ call.exclude_fields = {}
    /\ call.type_cast = EmptyDict

\* C12: in the fields assembled for a model, every to-one relationship
\* backed by a column of the model has a field under its own name, and the
\* backing column has none, whether or not the relationship declares its
\* foreign keys.
C12_RelationshipNotForeignKey ==
    FieldsAssembled =>
        \A f \in Range(call.mapper.relationships) :
            (f.to_one /\ f.local # NULL) =>
                (f.key \in DOMAIN call.fields /\ f.local \notin DOMAIN call.fields)

\* The yields of the wanted kinds that carry one name, in the order of
\* iter_fields, for the call of construct_fields that has returned.
Occurrences(n) ==
    LET items == iter_fields(call.mapper, call.only_fields,
                             call.exclude_fields).items
    IN Keep(items, {y \in Range(items) :
                        y.name = n /\ y.type \in call.field_types})

\* A call of construct_fields has returned its fields and the classifier
\* yielded the name n more than once among the wanted kinds.
YieldedTwice(n) ==
    /\ pc = "done" /\ call.op = "construct_fields" /\ call.kind = "ok"
    /\ n \notin DOMAIN call.type_cast
    /\ Len(Occurrences(n)) > 1

\* C25: when the classifier yields one name more than once among the
\* wanted kinds, the assembled fields hold under that name the descriptor
\* converted from the first occurrence; the later occurrences are dropped.
C25_FirstWriteWins ==
    \A n \in {"label", "name", "owner", "title"} :
        YieldedTwice(n) =>
            /\ n \in DOMAIN call.fields
            /\ call.fields[n] = ConvFn(World, Occurrences(n)[1], call.reg,
                                       call.input_attributes).field

\* A to-many relationship has been converted in input mode.
ToManyInputConverted ==
    /\ pc = "done"
    /\ call.op = "convert_sqlalchemy_relationship"
    /\ call.input_attributes
    /\ ~call.relationship.to_one

\* C19: converting a to-many relationship in input mode succeeds and yields
\* a list field over the nested input type named after the target model.
C19_ToManyInputList ==
    ToManyInputConverted =>
        /\ call.kind = "ok"
        /\ call.field.type = "List"
        /\ call.field.of = call.relationship.target \o "RelationshipInput"

(***************************************************************************)
(* The builders: the attributes bundle of a model (converter.py) and the   *)
(* output types (objecttype.py, types.py).                                 *)
(***************************************************************************)
\* The mappers of the models A and B, which refer to each other: A.b is a
\* to-one relationship over the declared foreign key b_id, B.a_list the
\* to-many relationship back.
MapperOf(model) ==
    IF model = "A"
    THEN [entity |-> "A",
          relationships |->
             << Relationship("b", TRUE, {Column("b_id", "Integer", FALSE, TRUE)},
                             "b_id", "B") >>,
          composites |-> << >>,
          columns |-> << Column("id", "Integer", TRUE, FALSE),
                         Column("name", "String", FALSE, TRUE),
                         Column("b_id", "Integer", FALSE, TRUE) >>,
          synonyms |-> << >>,
          all_orm_descriptors |-> << >>]
    ELSE [entity |-> "B",
          relationships |-> << Relationship("a_list", FALSE, {}, NULL, "A") >>,
          composites |-> << >>,
          columns |-> << Column("id", "Integer", TRUE, FALSE) >>,
          synonyms |-> << >>,
          all_orm_descriptors |-> << >>]

\* convert_model_to_attributes that builds and registers a bundle on every
\* call (mutant).
convert_model_to_attributes_AlwaysBuild(w, m, reg_arg, attributes_name, input_attributes, f) ==
    LET g == IF reg_arg = 0 THEN get_global_registry(w) ELSE [w |-> w, reg |-> reg_arg]
        name == IF attributes_name = NULL THEN m \o "Attribute" ELSE attributes_name
    IN  IF g.reg = NotARegistry
        THEN [kind |-> "AssertionError", w |-> g.w, reg |-> g.reg, name |-> name,
              bundle |-> 0, built |-> FALSE]
        ELSE Bind(construct_fields(g.w, MapperOf(m), g.reg, f.only, f.exclude,
                                   {"scalar", "relationship"}, EmptyDict,
                                   input_attributes),
                  LAMBDA _fields :
             LET b == Len(_fields.w.bundles) + 1
                 made == [_fields.w EXCEPT !.bundles = Append(@,
                            [name |-> name, model |-> m, registry |-> g.reg,
                             input |-> input_attributes,
                             only |-> f.only, exclude |-> f.exclude,
                             fields |-> _fields.fields])]
             IN IF _fields.kind # "ok"
                THEN [kind |-> _fields.kind, w |-> _fields.w, reg |-> g.reg,
                      name |-> name, bundle |-> 0, built |-> FALSE]
                ELSE [kind |-> "ok", w |-> register_attributes(made, g.reg, b),
                      reg |-> g.reg, name |-> name, bundle |-> b, built |-> TRUE])

\* convert_model_to_attributes(m, registry, ..., attributes_name,
\* input_attributes, ..., only_fields, exclude_fields): the bundle registered
\* under the name, or a new one built from the model's scalar and
\* relationship fields in the mode and with the filters of this call.
convert_model_to_attributes(w, m, reg_arg, attributes_name, input_attributes, f) ==
    LET g == IF reg_arg = 0 THEN get_global_registry(w) ELSE [w |-> w, reg |-> reg_arg]
        name == IF attributes_name = NULL THEN m \o "Attribute" ELSE attributes_name
    IN  IF g.reg = NotARegistry
        THEN [kind |-> "AssertionError", w |-> g.w, reg |-> g.reg, name |-> name,
              bundle |-> 0, built |-> FALSE]
        ELSE IF name \in DOMAIN g.w.regs[g.reg].attributes
        THEN [kind |-> "ok", w |-> g.w, reg |-> g.reg, name |-> name,
              bundle |-> g.w.regs[g.reg].attributes[name], built |-> FALSE]
        ELSE Bind(construct_fields(g.w, MapperOf(m), g.reg, f.only, f.exclude,
                                   {"scalar", "relationship"}, EmptyDict,
                                   input_attributes),
                  LAMBDA _fields :
             LET b == Len(_fields.w.bundles) + 1
                 made == [_fields.w EXCEPT !.bundles = Append(@,
                            [name |-> name, model |-> m, registry |-> g.reg,
                             input |-> input_attributes,
                             only |-> f.only, exclude |-> f.exclude,
                             fields |-> _fields.fields])]
             IN IF _fields.kind # "ok"
                THEN [kind |-> _fields.kind, w |-> _fields.w, reg |-> g.reg,
                      name |-> name, bundle |-> 0, built |-> FALSE]
                ELSE [kind |-> "ok", w |-> register_attributes(made, g.reg, b),
                      reg |-> g.reg, name |-> name, bundle |-> b, built |-> TRUE])

\* The definition of a class: the model must be mapped; the registry is the
\* one given or the global one; the bundle comes from
\* convert_model_to_attributes, which is called without the registry and so
\* works on the global one; the fields are those of the bundle, updated with
\* the composite, hybrid and relationship fields built on the registry of the
\* class; connection is whether the class has a connection type; the class
\* is registered unless skip_registry.  A definition that raises leaves no
\* class behind.
DefineClass(w, base, model, reg_arg, attributes_name, skip_registry, f, use_connection) ==
    IF model \notin Models
    THEN [kind |-> "AssertionError", w |-> w, reg |-> 0, type |-> 0]
    ELSE LET g == IF reg_arg = 0 THEN get_global_registry(w) ELSE [w |-> w, reg |-> reg_arg]
         IN IF g.reg = NotARegistry
            THEN [kind |-> "AssertionError", w |-> g.w, reg |-> g.reg, type |-> 0]
            ELSE Bind(convert_model_to_attributes(g.w, model, 0, attributes_name,
                                                  FALSE, f),
                      LAMBDA c :
                 IF c.kind # "ok"
                 THEN [kind |-> c.kind, w |-> c.w, reg |-> g.reg, type |-> 0]
                 ELSE Bind(construct_fields(c.w, MapperOf(model), g.reg,
                                            f.only, f.exclude,
                                            {"composite", "hybrid", "relationship"},
                                            EmptyDict, FALSE),
                           LAMBDA _fields :
                 LET t == Len(_fields.w.types) + 1
                     made == [_fields.w EXCEPT !.types = Append(@,
                                [base |-> base, model |-> model, registry |-> g.reg,
                                 attributes |-> c.bundle,
                                 connection |-> use_connection,
                                 fields |-> Update(c.w.bundles[c.bundle].fields,
                                                   _fields.fields)])]
                     registered == register(made, g.reg, t)
                 IN IF _fields.kind # "ok"
                    THEN [kind |-> _fields.kind, w |-> _fields.w, reg |-> g.reg,
                          type |-> 0]
                    ELSE IF skip_registry
                    THEN [kind |-> "ok", w |-> made, reg |-> g.reg, type |-> t]
                    ELSE IF registered.kind = "ok"
                    THEN [kind |-> "ok", w |-> registered.w, reg |-> g.reg, type |-> t]
                    ELSE [kind |-> registered.kind, w |-> _fields.w, reg |-> g.reg,
                          type |-> 0]))

\* ObjectType.__init_subclass_with_meta__ of objecttype.py for a new class:
\* the bundle is named after the model with the suffix Attributes and built
\* with the filters of the class.
DefineObjectType(w, model, reg_arg, skip_registry, f) ==
    DefineClass(w, "objecttype.ObjectType", model, reg_arg, model \o "Attributes",
                skip_registry, f, FALSE)

\* ObjectType.__init_subclass_with_meta__ of types.py for a new class: the
\* bundle has the default name and no filters; use_connection asks for a
\* connection type of the class.
DefineSQLAlchemyObjectType(w, model, reg_arg, skip_registry, use_connection) ==
    DefineClass(w, "types.ObjectType", model, reg_arg, NULL, skip_registry,
                [only |-> {}, exclude |-> {}], use_connection)

CallConvertModelToAttributes ==
    /\ pc = "idle"
    /\ \E m \in ConvertModels, reg_arg \in {0, NotARegistry} \cup DOMAIN regs,
          named \in BOOLEAN, input_attributes \in BOOLEAN, f \in Filters :
           \E c \in {convert_model_to_attributes(
                        World, m, reg_arg, IF named THEN m \o "Attributes" ELSE NULL,
                        input_attributes, f)} :
              RegistryCall([op |-> "convert_model_to_attributes", kind |-> c.kind,
                            reg |-> c.reg, name |-> c.name, bundle |-> c.bundle,
                            built |-> c.built, input |-> input_attributes,
                            only |-> f.only, exclude |-> f.exclude,
                            cached |-> IF c.reg \in DOMAIN regs
                                       THEN regs[c.reg].attributes
                                       ELSE EmptyDict,
                            constructed |-> Len(bundles)],
                           c.w)

CallDefineObjectType ==
    /\ pc = "idle"
    /\ \E model \in Classes, reg_arg \in {0, NotARegistry} \cup DOMAIN regs,
          skip_registry \in BOOLEAN, f \in Filters :
           \E d \in {DefineObjectType(World, model, reg_arg, skip_registry, f)} :
              RegistryCall([op |-> "define_object_type", kind |-> d.kind,
                            model |-> model, reg |-> d.reg, type |-> d.type,
                            skip_registry |-> skip_registry],
                           d.w)

CallDefineSQLAlchemyObjectType ==
    /\ pc = "idle"
    /\ \E model \in Classes, reg_arg \in {0, NotARegistry} \cup DOMAIN regs,
          skip_registry \in BOOLEAN :
           \E d \in {DefineSQLAlchemyObjectType(World, model, reg_arg, skip_registry,
                                               FALSE)} :
              RegistryCall([op |-> "define_object_type", kind |-> d.kind,
                            model |-> model, reg |-> d.reg, type |-> d.type,
                            skip_registry |-> skip_registry],
                           d.w)

\* InputObjectType.__init_subclass_with_meta__ of types.py with the option
\* schema: the bundle of the schema's model is asked for in input mode, with
\* no registry and no attributes name, and its fields are set on the class.
DefineInputObjectType(w, schema) ==
    Bind(convert_model_to_attributes(w, w.types[schema]["model"], 0, NULL, TRUE,
                                     [only |-> {}, exclude |-> {}]),
         LAMBDA c : [kind |-> c.kind, w |-> c.w, reg |-> c.reg, bundle |-> c.bundle,
                     built |-> c.built])

\* The class statement of an input type over an output type defined before.
CallDefineInputObjectType ==
    /\ pc = "idle"
    /\ \E schema \in DOMAIN types :
           \E d \in {DefineInputObjectType(World, schema)} :
              RegistryCall([op |-> "define_input_type", kind |-> d.kind,
                            schema |-> schema, model |-> types[schema]["model"],
                            reg |-> d.reg, bundle |-> d.bundle, built |-> d.built],
                           d.w)

\* The class statement of a type with the Node interface, for which the
\* builder makes a connection type.
CallDefineSQLAlchemyNodeType ==
    /\ pc = "idle"
    /\ \E model \in Classes, reg_arg \in {0, NotARegistry} \cup DOMAIN regs :
           \E d \in {DefineSQLAlchemyObjectType(World, model, reg_arg, FALSE, TRUE)} :
              RegistryCall([op |-> "define_object_type", kind |-> d.kind,
                            model |-> model, reg |-> d.reg, type |-> d.type,
                            skip_registry |-> FALSE],
                           d.w)

\* The calls on the global registry: the four register operations and the
\* definition of output types.
NextRegistry ==
    \/ CallGetGlobalRegistry
    \/ CallRegister
    \/ CallRegisterAttributes
    \/ CallRegisterCompositeConverter
    \/ CallRegisterEnum
    \/ CallDefineObjectType
    \/ CallDefineSQLAlchemyObjectType
    \/ Return

SpecRegistry == InitRegistry /\ [][NextRegistry]_vars

\* Schema construction through the builders alone: no direct register call.
NextBuild ==
    \/ NewRegistry
    \/ CallGetGlobalRegistry
    \/ CallResetGlobalRegistry
    \/ CallConvertModelToAttributes
    \/ CallDefineObjectType
    \/ Return

SpecBuild == InitRegistry /\ [][NextBuild]_vars


\* Output types and input types of the same models, in any order.
NextModes ==
    \/ CallDefineObjectType
    \/ CallDefineSQLAlchemyObjectType
    \/ CallDefineInputObjectType
    \/ Return

SpecModes == InitRegistry /\ [][NextModes]_vars

(***************************************************************************)
(* Claims about the registry and the builders.                             *)
(***************************************************************************)
Namespaces == {"models", "composites", "attributes", "enums"}

\* C7: the registry is append-only: in every step, every key mapped in a
\* namespace of a registry stays mapped, to the same value; so a second type
\* registered for a model does not replace the first.
C7_AppendOnly ==
    [][\A r \in DOMAIN regs : \A ns \in Namespaces : \A k \in DOMAIN regs[r][ns] :
          k \in DOMAIN regs'[r][ns] /\ regs'[r][ns][k] = regs[r][ns][k]]_vars

\* C8: building the output type of a model twice against one registry gives
\* the same type object, and after each build that registers its type
\* get_type_for_model returns that object.
C8_SameTypeForModel ==
    /\ \A i, j \in DOMAIN types :
          (types[i].model = types[j].model /\ types[i].registry = types[j].registry)
              => i = j
    /\ (pc = "done" /\ call.op = "define_object_type" /\ call.kind = "ok"
            /\ ~call.skip_registry) =>
          Get(regs[call.reg].models, call.model) = call.type

ConvertReturned ==
    pc = "done" /\ call.op = "convert_model_to_attributes" /\ call.kind = "ok"

\* C9: at most one bundle is ever constructed per bundle name of a registry;
\* a call for a name that is registered returns the registered bundle and
\* constructs nothing, whatever its mode and filters; a call for a new name
\* constructs one bundle from its own arguments and registers it.
C9_BundleBuiltOnce ==
    /\ \A i, j \in DOMAIN bundles :
          (bundles[i].name = bundles[j].name
               /\ bundles[i].registry = bundles[j].registry) => i = j
    /\ ConvertReturned =>
          /\ call.name \in DOMAIN regs[call.reg].attributes
          /\ regs[call.reg].attributes[call.name] = call.bundle
          /\ bundles[call.bundle].name = call.name
          /\ bundles[call.bundle].registry = call.reg
          /\ IF call.name \in DOMAIN call.cached
             THEN /\ call.bundle = call.cached[call.name]
                  /\ ~call.built
                  /\ Len(bundles) = call.constructed
             ELSE /\ call.built
                  /\ Len(bundles) = call.constructed + 1
                  /\ call.bundle = Len(bundles)
                  /\ bundles[call.bundle].input = call.input
                  /\ bundles[call.bundle].only = call.only
                  /\ bundles[call.bundle].exclude = call.exclude

\* A later call for a registered name, in another mode and with other
\* filters than the call that built the bundle.
C9_Witness ==
    /\ ConvertReturned
    /\ ~call.built
    /\ bundles[call.bundle].only # call.only
    /\ bundles[call.bundle].input # call.input

(***************************************************************************)
(* The life of the global registry: every registry of this specification   *)
(* has been the global one.                                                *)
(***************************************************************************)
NextGlobal ==
    \/ CallGetGlobalRegistry
    \/ CallResetGlobalRegistry
    \/ CallDefineSQLAlchemyObjectType
    \/ Return

SpecGlobal == InitRegistry /\ [][NextGlobal]_vars

\* get_global_registry has returned.
GlobalReturned == pc = "done" /\ call.op = "get_global_registry"

\* C18: get_global_registry returns the global Registry; while one exists
\* it is the one returned, and no step but reset_global_registry takes it
\* away; after a reset there is none, and the global Registry made next did
\* not exist before; get_global_registry returns it with its four
\* namespaces empty.
C18_GlobalRegistryLifecycle ==
    /\ [](GlobalReturned =>
            /\ call.result = registry
            /\ call.result \in DOMAIN regs
            /\ IF call.before # 0
               THEN call.result = call.before
               ELSE regs[call.result] = EmptyRegistry)
    /\ []((pc = "done" /\ call.op = "reset_global_registry") => registry = 0)
    /\ [][registry' # registry =>
            \/ registry' = 0 /\ call'.op = "reset_global_registry"
            \/ /\ registry = 0
               /\ registry' \notin DOMAIN regs
               /\ registry' \in DOMAIN regs']_vars

\* get_global_registry returns a second, empty Registry after a reset,
\* while the first one holds a type and a bundle.
C18_Witness ==
    /\ GlobalReturned
    /\ call.before = 0
    /\ call.result = 2
    /\ regs[1].models # EmptyDict
    /\ regs[1].attributes # EmptyDict
    /\ regs[2] = EmptyRegistry

(***************************************************************************)
(* Deferred relationship fields: the closure dynamic_type of               *)
(* convert_sqlalchemy_relationship, called when the schema resolves a      *)
(* Dynamic field.                                                          *)
(***************************************************************************)
\* default_connection_field_factory(relationship, registry): an
\* UnsortedConnectionField over the type registered for the target model.
default_connection_field_factory(w, relationship, reg) ==
    [type |-> "UnsortedConnectionField",
     of_type |-> Get(w.regs[reg].models, relationship.target)]

\* dynamic_type(): None while no type is registered for the target model;
\* otherwise a Field over that type for a to-one relationship, and for a
\* to-many one a connection field when the type has a connection, else a
\* Field over a List of it.  It reads the registry and builds no type.
dynamic_type(w, d) ==
    LET model == d.relationship.target
        models == w.regs[d.reg].models
    IN IF model \notin DOMAIN models
       THEN [type |-> "None", of_type |-> 0]
       ELSE IF d.relationship.to_one
       THEN [type |-> "Field", of_type |-> models[model]]
       ELSE IF w.types[models[model]].connection
       THEN default_connection_field_factory(w, d.relationship, d.reg)
       ELSE [type |-> "List", of_type |-> models[model]]

\* The schema resolves the Dynamic field n of the type t.
CallDynamicType ==
    /\ pc = "idle"
    /\ \E t \in DOMAIN types :
           \E n \in DOMAIN types[t].fields :
               LET d == types[t].fields[n]
               IN /\ d.type = "Dynamic"
                  /\ RegistryCall([op |-> "dynamic_type", type |-> t, name |-> n,
                                   target |-> d.relationship.target,
                                   to_one |-> d.relationship.to_one,
                                   reg |-> d.reg,
                                   registered |-> d.relationship.target
                                                    \in DOMAIN regs[d.reg].models,
                                   types_before |-> Len(types),
                                   bundles_before |-> Len(bundles),
                                   result |-> dynamic_type(World, d)],
                                  World)

NextCycle ==
    \/ NewRegistry
    \/ CallDefineSQLAlchemyObjectType
    \/ CallDefineSQLAlchemyNodeType
    \/ CallDynamicType
    \/ Return

SpecCycle == InitRegistry /\ [][NextCycle]_vars

\* A class statement of a mapped model on a registry has returned or raised.
DefinedOnRegistry ==
    /\ pc = "done"
    /\ call.op = "define_object_type"
    /\ call.model \in Models
    /\ call.reg \in DOMAIN regs

\* A Dynamic field has been resolved.
DynamicResolved == pc = "done" /\ call.op = "dynamic_type"

\* C17: building the output type of a model succeeds whether or not the
\* types of the models it refers to are registered, and every relationship
\* of the model becomes a Dynamic field that holds the relationship and the
\* registry of the class; resolving a Dynamic field gives None while the
\* target model has no registered type and otherwise a field over the type
\* registered for the target model, and it builds no type and no bundle.
C17_DeferredRelationships ==
    /\ DefinedOnRegistry =>
          /\ call.kind = "ok"
          /\ \A i \in DOMAIN MapperOf(call.model).relationships :
                LET r == MapperOf(call.model).relationships[i]
                IN /\ r.key \in DOMAIN types[call.type].fields
                   /\ types[call.type].fields[r.key]
                        = [type |-> "Dynamic", relationship |-> r, reg |-> call.reg]
    /\ DynamicResolved =>
          /\ Len(types) = call.types_before
          /\ Len(bundles) = call.bundles_before
          /\ IF call.registered
             THEN /\ call.result.of_type = regs[call.reg].models[call.target]
                  /\ types[call.result.of_type].model = call.target
                  /\ call.result.type =
                        IF call.to_one THEN "Field"
                        ELSE IF types[call.result.of_type].connection
                             THEN "UnsortedConnectionField" ELSE "List"
             ELSE call.result = [type |-> "None", of_type |-> 0]

\* The field b of a type of A, built before any type of B existed, resolves
\* to the type registered for B afterwards.
C17_Witness ==
    /\ DynamicResolved
    /\ call.registered
    /\ call.target = "B"
    /\ call.type < call.result.of_type
    /\ call.type \in Range(regs[call.reg].models)

(***************************************************************************)
(* Connection fields (fields.py) and the sort argument (utils.py).         *)
(***************************************************************************)
\* The columns of a model, as inspect(cls).columns.values() gives them.
ModelColumns(cls) == PetMapper(TRUE, "name").columns

\* _symbol_name.
symbol_name(column_name, is_asc) ==
    column_name \o (IF is_asc THEN "_asc" ELSE "_desc")

\* EnumValue(str_value, value): the value of a sort entry is the ordering
\* column.asc() or column.desc().
EnumValue(column, is_asc) ==
    [str |-> symbol_name(column.name, is_asc),
     value |-> [column |-> column.name, asc |-> is_asc]]

\* _sort_enum_for_model(cls): the cached (enum, default) of the name, or a
\* new enum with an ascending and a descending entry per column, the
\* default being the ascending entries of the primary-key columns.
sort_enum_for_model(cache, cls) ==
    LET name == cls \o "SortEnum"
        columns == ModelColumns(cls)
        pks == Keep(columns, {c \in Range(columns) : c.primary_key})
        made == [enum |-> [name |-> name,
                           items |-> [i \in 1..(2 * Len(columns)) |->
                                        EnumValue(columns[(i + 1) \div 2], i % 2 = 1)]],
                 default |-> [i \in DOMAIN pks |-> EnumValue(pks[i], TRUE)]]
    IN IF name \in DOMAIN cache
       THEN [cache |-> cache, enum |-> cache[name].enum, default |-> cache[name].default]
       ELSE [cache |-> Update(cache, [n \in {name} |-> made]),
             enum |-> made.enum, default |-> made.default]

\* sort_argument_for_model(cls, has_default): a list argument over the sort
\* enum; without has_default its default value is None.
sort_argument_for_model(cache, cls, has_default) ==
    LET e == sort_enum_for_model(cache, cls)
    IN [cache |-> e.cache,
        argument |-> [enum |-> e.enum.name, has_default |-> has_default,
                      default_value |-> IF has_default THEN e.default ELSE <<>>]]

NoArgument == [enum |-> "", has_default |-> FALSE, default_value |-> <<>>]

\* The types a connection field is built over: a connection whose node type
\* has a model, a connection whose node type has none, and an output type
\* that has a connection.
ConnectionTypes ==
    { [name |-> "PetConnection", is_connection |-> TRUE, model |-> "Pet"],
      [name |-> "LogConnection", is_connection |-> TRUE, model |-> NULL],
      [name |-> "PetType", is_connection |-> FALSE, model |-> "Pet"] }

\* The sort keyword of the constructor: not passed, None, or an argument of
\* the caller's.
SortOptions == {"absent", "None", "given"}

\* ConnectionField.__init__(type, sort=...): without the keyword, over a
\* connection, the sort argument of the node's model (an error when the
\* node has no model); sort=None is removed; then the field is built.
ConnectionFieldInit(cache, type, sort) ==
    IF sort = "absent" /\ type.is_connection
    THEN IF type.model = NULL
         THEN [kind |-> "Exception", cache |-> cache,
               field |-> [type |-> type, has_sort |-> FALSE, sort |-> NoArgument]]
         ELSE LET a == sort_argument_for_model(cache, type.model, TRUE)
              IN [kind |-> "ok", cache |-> a.cache,
                  field |-> [type |-> type, has_sort |-> TRUE, sort |-> a.argument]]
    ELSE [kind |-> "ok", cache |-> cache,
          field |-> [type |-> type, has_sort |-> sort = "given",
                     sort |-> IF sort = "given"
                              THEN [enum |-> "PetSortEnum", has_default |-> FALSE,
                                    default_value |-> <<>>]
                              ELSE NoArgument]]

\* utils.get_query(model, context): the model's own query, or one from the
\* session of the context.
get_query(model_has_query, context_has_session, model) ==
    IF ~model_has_query /\ ~context_has_session
    THEN [kind |-> "Exception", order_by |-> <<>>]
    ELSE [kind |-> "ok", order_by |-> <<>>]

\* The orderings of a sort value: of the value itself when it is one
\* entry, of its entries in order when it is a list.
SortValues(sort) == [i \in DOMAIN sort |-> sort[i].value]

\* UnsortedConnectionField.get_query(model, info, sort, **args): the
\* arguments of the call of utils.get_query are evaluated first, among them
\* the result_type of the node's options; the call passes three positional
\* arguments to a function of two.
ConnectionGetQuery(field, info, has_sort, sort) ==
    IF ~info.node_has_result_type
    THEN [kind |-> "AttributeError", order_by |-> <<>>]
    ELSE LET positional == <<field.type.model, "context", "result_type">>
             query == IF Len(positional) # 2
                      THEN [kind |-> "TypeError", order_by |-> <<>>]
                      ELSE get_query(info.model_has_query, info.context_has_session,
                                     positional[1])
         IN IF query.kind # "ok" \/ ~has_sort
            THEN query
            ELSE [kind |-> "ok", order_by |-> query.order_by \o SortValues(sort)]

\* The arguments graphene hands to the resolver: those of the request, and
\* the default value of an argument the request leaves out.
ResolverArgs(field, request) ==
    IF request.supplied
    THEN [has_sort |-> TRUE, sort |-> request.sort]
    ELSE IF field.has_sort /\ field.sort.has_default
    THEN [has_sort |-> TRUE, sort |-> field.sort.default_value]
    ELSE [has_sort |-> FALSE, sort |-> <<>>]

\* connection_resolver and resolve_connection: the source is what the
\* field's resolver returned, or, when that is None, the query of
\* get_query; the source is then sliced into the connection as it is.
ConnectionResolver(field, info, request, resolved) ==
    LET args == ResolverArgs(field, request)
    IN IF resolved = NULL
       THEN LET q == ConnectionGetQuery(field, info, args.has_sort, args.sort)
            IN [kind |-> q.kind, origin |-> "get_query", order_by |-> q.order_by,
                args |-> args]
       ELSE [kind |-> "ok", origin |-> "resolver", order_by |-> <<>>, args |-> args]

\* The sort of a request: none, a list of one entry, a list of two.
SortRequests ==
    LET columns == ModelColumns("Pet")
    IN { [supplied |-> FALSE, sort |-> <<>>],
         [supplied |-> TRUE, sort |-> <<EnumValue(columns[2], FALSE)>>],
         [supplied |-> TRUE,
          sort |-> <<EnumValue(columns[2], TRUE), EnumValue(columns[1], FALSE)>>] }

\* What the resolver of the field, the node's options, the model and the
\* context are like in a request.
ResolveInfos ==
    [node_has_result_type : BOOLEAN, model_has_query : BOOLEAN,
     context_has_session : BOOLEAN]

CallConnectionFieldInit ==
    /\ pc = "idle"
    /\ Len(connection_fields) < MaxConnectionFields
    /\ \E type \in ConnectionTypes, sort \in SortOptions :
          LET c == ConnectionFieldInit(ENUM_CACHE, type, sort)
          IN /\ call' = [op |-> "ConnectionField", kind |-> c.kind, type |-> type,
                         sort_option |-> sort, field |-> c.field]
             /\ ENUM_CACHE' = c.cache
             /\ connection_fields' = IF c.kind = "ok"
                                     THEN Append(connection_fields, c.field)
                                     ELSE connection_fields
    /\ pc' = "done"
    /\ UNCHANGED <<mutationVars, registryVars, concurrentVars>>

\* A request on a connection field over a model; it can name a sort only
\* when the field has a sort argument.
CallConnectionResolver ==
    /\ pc = "idle"
    /\ \E i \in DOMAIN connection_fields, info \in ResolveInfos,
          request \in SortRequests, resolved \in {NULL, "list", "Query"} :
          LET field == connection_fields[i]
              c == ConnectionResolver(field, info, request, resolved)
          IN /\ field.type.model # NULL
             /\ request.supplied => field.has_sort
             /\ call' = [op |-> "connection_resolver", kind |-> c.kind,
                         field |-> field, request |-> request,
                         resolved |-> resolved, origin |-> c.origin,
                         args |-> c.args, order_by |-> c.order_by]
    /\ pc' = "done"
    /\ UNCHANGED <<mutationVars, registryVars, connectionVars, concurrentVars>>

\* resolve_connection(connection_type, model, info, args, resolved): the
\* pagination step, with the arguments that on_resolve has captured.
resolve_connection(field, info, args, resolved) ==
    IF resolved = NULL
    THEN LET q == ConnectionGetQuery(field, info, args.has_sort, args.sort)
         IN [kind |-> q.kind, origin |-> "get_query", order_by |-> q.order_by,
             args |-> args]
    ELSE [kind |-> "ok", origin |-> "resolver", order_by |-> <<>>, args |-> args]

\* No connection: resolve_connection has not run.
NoConnection == [kind |-> "none", origin |-> "", order_by |-> <<>>, args |-> <<>>]

\* What the wrapped resolver returns: None, a list, a query, or a thenable
\* whose value is not available yet.
is_thenable(resolved) == resolved = "thenable"

\* connection_resolver without the test for a thenable (mutant): the
\* pagination step is run at once on whatever the resolver returned, and a
\* thenable has no length.
connection_resolver_NoThenableTest(field, info, request, resolved) ==
    LET args == ResolverArgs(field, request)
        on_resolve == [field |-> field, info |-> info, args |-> args]
    IN [chained |-> FALSE, on_resolve |-> on_resolve, ran |-> 1,
        connection |-> IF is_thenable(resolved)
                       THEN [kind |-> "TypeError", origin |-> "resolver",
                             order_by |-> <<>>, args |-> args]
                       ELSE resolve_connection(field, info, args, resolved)]

\* connection_resolver(resolver, connection_type, model, root, info, **args):
\* on_resolve is resolve_connection with the connection type, the model,
\* info and args of the call; it is chained to a thenable and run at once
\* on any other value.
connection_resolver(field, info, request, resolved) ==
    LET args == ResolverArgs(field, request)
        on_resolve == [field |-> field, info |-> info, args |-> args]
    IN IF is_thenable(resolved)
       THEN [chained |-> TRUE, on_resolve |-> on_resolve, ran |-> 0,
             connection |-> NoConnection]
       ELSE [chained |-> FALSE, on_resolve |-> on_resolve, ran |-> 1,
             connection |-> resolve_connection(field, info, args, resolved)]

\* The requests whose resolver returns a thenable: the node's options and
\* the context as they are in a request.
ThenableInfos ==
    { [node_has_result_type |-> h, model_has_query |-> TRUE,
       context_has_session |-> TRUE] : h \in BOOLEAN }

\* A request on a connection field whose resolver returns a thenable: the
\* thenable is noted with what connection_resolver has done with it.
CallConnectionResolverThenable ==
    /\ pc = "idle"
    /\ Len(promises) < MaxPromises
    /\ \E i \in DOMAIN connection_fields, info \in ThenableInfos,
          request \in SortRequests :
          LET field == connection_fields[i]
              c == connection_resolver(field, info, request, "thenable")
          IN /\ field.type.model # NULL
             /\ request.supplied => field.has_sort
             /\ promises' = Append(promises,
                    [state |-> "pending", value |-> NULL, field |-> field,
                     info |-> info, request |-> request, chained |-> c.chained,
                     on_resolve |-> c.on_resolve, ran |-> c.ran,
                     connection |-> c.connection])
    /\ UNCHANGED <<pc, call, mutationVars, registryVars, connectionVars,
                   sessions, invocations>>

\* The value of a thenable becomes available.
PromiseFulfil ==
    /\ \E i \in DOMAIN promises, value \in {NULL, "list", "Query"} :
          /\ promises[i].state = "pending"
          /\ promises' = [promises EXCEPT ![i].state = "fulfilled",
                                          ![i].value = value]
    /\ UNCHANGED <<pc, call, mutationVars, registryVars, connectionVars,
                   sessions, invocations>>

\* A thenable fails: a continuation given to then() alone is not run.
PromiseReject ==
    /\ \E i \in DOMAIN promises :
          /\ promises[i].state = "pending"
          /\ promises' = [promises EXCEPT ![i].state = "rejected"]
    /\ UNCHANGED <<pc, call, mutationVars, registryVars, connectionVars,
                   sessions, invocations>>

\* Promise.resolve(resolved).then(on_resolve): the continuation chained to
\* thenable i is run with its value once that is available.
PromiseThen(i) ==
    /\ i \in DOMAIN promises
    /\ promises[i].state = "fulfilled"
    /\ promises[i].chained
    /\ promises[i].ran = 0
    /\ promises' = [promises EXCEPT
          ![i].ran = 1,
          ![i].connection = resolve_connection(promises[i].on_resolve.field,
                                               promises[i].on_resolve.info,
                                               promises[i].on_resolve.args,
                                               promises[i].value)]
    /\ UNCHANGED <<pc, call, mutationVars, registryVars, connectionVars,
                   sessions, invocations>>

\* Requests whose resolvers return thenables, and the thenables' fates.
NextThenable ==
    \/ CallConnectionFieldInit
    \/ Return
    \/ CallConnectionResolverThenable
    \/ PromiseFulfil
    \/ PromiseReject
    \/ \E i \in 1..MaxPromises : PromiseThen(i)

\* The promise library runs the continuations of a fulfilled promise.
SpecThenable ==
    /\ InitRegistry
    /\ [][NextThenable]_vars
    /\ \A i \in 1..MaxPromises : WF_vars(PromiseThen(i))

NextConnection ==
    \/ CallConnectionFieldInit
    \/ CallConnectionResolver
    \/ Return

SpecConnection == InitRegistry /\ [][NextConnection]_vars

(***************************************************************************)
(* Claims about connection fields.                                         *)
(***************************************************************************)
\* The ascending orderings of the primary-key columns of a model.
AscendingByPrimaryKey(cls) ==
    LET pks == Keep(ModelColumns(cls), {c \in Range(ModelColumns(cls)) : c.primary_key})
    IN [i \in DOMAIN pks |-> [column |-> pks[i].name, asc |-> TRUE]]

Resolved == pc = "done" /\ call.op = "connection_resolver"

\* C15: a connection field built without a sort option over a connection of
\* a model has a sort argument whose default is the ascending entries of the
\* primary key, and a request on it that names no sort is resolved from the
\* query ordered ascending by primary key; built with sort=None the field
\* has no sort argument and its requests are resolved from the query with
\* no ordering.
C15_SortDefault ==
    /\ (pc = "done" /\ call.op = "ConnectionField" /\ call.type.is_connection
            /\ call.type.model # NULL /\ call.sort_option = "absent") =>
          /\ call.kind = "ok"
          /\ call.field.has_sort /\ call.field.sort.has_default
          /\ SortValues(call.field.sort.default_value)
                = AscendingByPrimaryKey(call.type.model)
    /\ (pc = "done" /\ call.op = "ConnectionField" /\ call.sort_option = "None") =>
          (call.kind = "ok" /\ ~call.field.has_sort)
    /\ (Resolved /\ call.resolved = NULL /\ ~call.request.supplied) =>
          /\ call.kind = "ok"
          /\ call.order_by = IF call.field.has_sort /\ call.field.sort.has_default
                             THEN AscendingByPrimaryKey(call.field.type.model)
                             ELSE <<>>

\* C16: whenever a request names a sort, the source that is paginated has
\* the orderings of the sort applied, in the order given, whether the source
\* is the query of get_query or what the field's resolver returned.
C16_SortApplied ==
    (Resolved /\ call.request.supplied) =>
        (call.kind = "ok" /\ call.order_by = SortValues(call.request.sort))

(***************************************************************************)
(* Claims about a mutation type without a roles map.                       *)
(***************************************************************************)
\* _available_fields_for_user has returned or raised for a roles map that
\* is absent or empty.
AuthReturnedWithoutRolesMap == AuthReturned /\ DOMAIN call.roles_map = {}

\* C28: with an absent or empty roles map, _available_fields_for_user
\* succeeds for every set of user roles and every input, and returns
\* exactly the supplied fields with their values.
C28_NoRolesMapNoRestriction ==
    AuthReturnedWithoutRolesMap =>
        (call.kind = "ok" /\ call.fields = call.data)

\* C29: authorization leaves the roles map as it is: in every step of any
\* run of mutate invocations, the allowance of every role (the wildcard or
\* the list of field names) is what it was before the step, and so what it
\* was before the first invocation.
C29_RolesMapUnchanged == [][roles_map' = roles_map]_vars

(***************************************************************************)
(* Claims about a registry of the caller's own.                            *)
(***************************************************************************)
\* The step is the definition of an output type that succeeds with a
\* registry the caller supplied, which is not the global registry.
DefinesWithOwnRegistry ==
    /\ pc = "idle" /\ pc' = "done"
    /\ call'.op = "define_object_type" /\ call'.kind = "ok"
    /\ call'.reg \in DOMAIN regs
    /\ call'.reg # registry

\* C30: the definition of an output type with a registry R of the caller's
\* adds entries to R alone: the global registry is not created by it, and
\* no registry but R is changed by it.
C30_RegistryIsolation ==
    [][DefinesWithOwnRegistry =>
          /\ registry' = registry
          /\ Len(regs') = Len(regs)
          /\ \A r \in DOMAIN regs : r # call'.reg => regs'[r] = regs[r]]_vars

(***************************************************************************)
(* Claims about the two modes of a bundle.                                 *)
(***************************************************************************)
InputTypeDefined ==
    pc = "done" /\ call.op = "define_input_type" /\ call.kind = "ok"

\* C26: whatever the order in which the output types and the input types
\* of a model are defined, the bundle of every output type was built in
\* plain mode and the bundle an input type received was built in input
\* mode.
C26_BundleModeSeparation ==
    /\ \A t \in DOMAIN types : ~bundles[types[t].attributes].input
    /\ InputTypeDefined => bundles[call.bundle].input

(***************************************************************************)
(* Claims about resolvers that return thenables.                           *)
(***************************************************************************)
\* The pagination step has run for thenable i.
PaginationRan(i) == i \in DOMAIN promises /\ promises[i].ran = 1

\* The value of thenable i is available.
Fulfilled(i) == i \in DOMAIN promises /\ promises[i].state = "fulfilled"

\* For every thenable a resolver has returned: the pagination step has not
\* run while the value is not available; when it has run, it has run with
\* the field, info and arguments of the request, and its connection is the
\* one the synchronous path makes of the same value.
PaginationAfterValue ==
    \A i \in DOMAIN promises :
        LET p == promises[i]
        IN /\ p.ran \in {0, 1}
           /\ p.state # "fulfilled" => (p.ran = 0 /\ p.connection = NoConnection)
           /\ p.on_resolve = [field |-> p.field, info |-> p.info,
                              args |-> ResolverArgs(p.field, p.request)]
           /\ p.ran = 1 =>
                 p.connection = ConnectionResolver(p.field, p.info, p.request,
                                                   p.value)

\* A pagination step that has run is not run again.
PaginationOnce ==
    \A i \in DOMAIN promises :
        promises[i].ran = 1 =>
            /\ promises'[i].ran = 1
            /\ promises'[i].connection = promises[i].connection

\* C27: when the wrapped resolver returns a thenable, resolve_connection is
\* not run before the value is available, is run once the value is
\* available and never a second time, with the connection type, model,
\* info and arguments of the call, and makes the connection the
\* synchronous path makes of the same value.
C27_PaginationAfterThenable ==
    /\ []PaginationAfterValue
    /\ [][PaginationOnce]_vars
    /\ \A i \in 1..MaxPromises : Fulfilled(i) ~> PaginationRan(i)

\* Two thenables: the first is fulfilled with a list and paginated, the
\* second is still pending.
C27_Witness ==
    /\ Len(promises) = 2
    /\ Fulfilled(1) /\ PaginationRan(1)
    /\ promises[1].value = "list" /\ promises[1].connection.kind = "ok"
    /\ promises[1].request.supplied
    /\ promises[2].state = "pending" /\ promises[2].ran = 0

====
